---- MODULE Spec2Model ----
(***************************************************************************)
(* FlexCAN mailbox driver of s32k144evb (src/src/can.rs).                  *)
(*                                                                         *)
(* The peripheral's registers are the state: the mailbox RAM (4 words per  *)
(* mailbox), the completion-flag register IFLAG1, MCR, CTRL1.   Driver   *)
(* calls (init, transmit, transmit_quick, receive) are actions; so are the *)
(* peripheral's own steps (a transmission completing, a frame arriving).   *)
(*                                                                         *)
(* Words that fit TLC's integers (control/status word, identifier word)    *)
(* are integers and are taken apart with the same bit ranges as the code.  *)
(* A payload word is kept as its four byte lanes (lane k = bits 8k..8k+7), *)
(* because a full 32-bit value does not fit a TLC integer.                 *)
(***************************************************************************)
EXTENDS Integers, Sequences, FiniteSets, TLC

VARIABLES
    ram,     \* embedded_ram: mailbox index -> [cs, idw, dw]
    iflag,   \* IFLAG1: the set of mailbox indices whose completion flag is set
    cfg,     \* configuration registers: [mcr, ctrl1, rxmgmask, tdcen]
    arg,     \* the call in hand: operation and its inputs
    pre,     \* registers as they were when that call started
    ret,     \* what the call returned
    hist     \* bookkeeping: peripheral event counts, the run of transmit_quick calls

vars == <<ram, iflag, cfg, arg, pre, ret, hist>>

TX_MAILBOXES == 8
RX_MAILBOXES == 8

Mailboxes == 0 .. (TX_MAILBOXES + RX_MAILBOXES - 1)
TxMailboxes == 0 .. (TX_MAILBOXES - 1)
RxMailboxes == TX_MAILBOXES .. (TX_MAILBOXES + RX_MAILBOXES - 1)

(***************************************************************************)
(* bit_field::BitField on unsigned words                                   *)
(***************************************************************************)
Pow2(n) == 2 ^ n

get_bits(w, lo, hi) == (w \div Pow2(lo)) % Pow2(hi - lo)

get_bit(w, b) == get_bits(w, b, b + 1) = 1

\* The crate asserts that the value fits the range; every caller below passes
\* a value that does.
set_bits(w, lo, hi, v) == w - get_bits(w, lo, hi) * Pow2(lo) + v * Pow2(lo)

set_bit(w, b, v) == set_bits(w, b, b + 1, IF v THEN 1 ELSE 0)

\* A payload word as byte lanes: lanes[k + 1] is bits 8k .. 8k+7.
lane_get_bits(lanes, lo) == lanes[(lo \div 8) + 1]

lane_set_bits(lanes, lo, v) == [lanes EXCEPT ![(lo \div 8) + 1] = v]

(***************************************************************************)
(* MessageBufferCode and its 4-bit encoding                                *)
(***************************************************************************)
ReceiveBufferStates == {"Inactive", "Empty", "Full", "Overrun", "Ranswer"}
TransmitBufferStates == {"Inactive", "Abort", "DataRemote", "Tanswer"}

Transmit(s) == [kind |-> "Transmit", state |-> s, busy |-> FALSE]
Receive(s, b) == [kind |-> "Receive", state |-> s, busy |-> b]

MessageBufferCodes ==
    {Transmit(s) : s \in TransmitBufferStates}
        \cup {Receive(s, b) : s \in ReceiveBufferStates, b \in BOOLEAN}

Ok(v) == [tag |-> "Ok", val |-> v]
Err(e) == [tag |-> "Err", val |-> e]

\* Faulty variant: Empty and Full exchange their bits.
ReceiveStateBits_exchanged(s) ==
    CASE s = "Inactive" -> 0
      [] s = "Empty" -> 1
      [] s = "Full" -> 2
      [] s = "Overrun" -> 3
      [] s = "Ranswer" -> 5

ReceiveStateBits(s) ==
    CASE s = "Inactive" -> 0
      [] s = "Empty" -> 2
      [] s = "Full" -> 1
      [] s = "Overrun" -> 3
      [] s = "Ranswer" -> 5

\* impl From<MessageBufferCode> for u8
u8_from(code) ==
    IF code.kind = "Receive"
    THEN get_bits(set_bits(set_bit(0, 0, code.busy), 1, 4,
                           ReceiveStateBits(code.state)), 0, 4)
    ELSE CASE code.state = "Inactive" -> 8
           [] code.state = "Abort" -> 9
           [] code.state = "DataRemote" -> 12
           [] code.state = "Tanswer" -> 14

decode(code) ==
    CASE code = 8 -> Ok(Transmit("Inactive"))
      [] code = 9 -> Ok(Transmit("Abort"))
      [] code = 12 -> Ok(Transmit("DataRemote"))
      [] code = 14 -> Ok(Transmit("Tanswer"))
      [] code = 0 -> Ok(Receive("Inactive", FALSE))
      [] code = 1 -> Ok(Receive("Inactive", TRUE))
      [] code = 4 -> Ok(Receive("Empty", FALSE))
      [] code = 5 -> Ok(Receive("Empty", TRUE))
      [] code = 2 -> Ok(Receive("Full", FALSE))
      [] code = 3 -> Ok(Receive("Full", TRUE))
      [] code = 6 -> Ok(Receive("Overrun", FALSE))
      [] code = 7 -> Ok(Receive("Overrun", TRUE))
      [] code = 10 -> Ok(Receive("Ranswer", FALSE))
      [] code = 11 -> Ok(Receive("Ranswer", TRUE))
      [] OTHER -> Err("unit")

(***************************************************************************)
(* Frames and headers                                                      *)
(***************************************************************************)
\* CanFrame: DataFrame{id, data} or RemoteFrame{id}; id is BaseID or ExtendedID.
DataFrame(ext, id, data) == [ext |-> ext, id |-> id, rtr |-> FALSE, data |-> data]
RemoteFrame(ext, id) == [ext |-> ext, id |-> id, rtr |-> TRUE, data |-> <<>>]

NoFrame == [ext |-> FALSE, id |-> 0, rtr |-> FALSE, data |-> <<>>]

MailboxHeader(esi, code, ts, prio) ==
    [error_state_indicator |-> esi, code |-> code, time_stamp |-> ts, priority |-> prio]

default_transmit == MailboxHeader(FALSE, Transmit("Inactive"), 0, 0)

default_receive == MailboxHeader(FALSE, Receive("Empty", FALSE), 0, 0)

\* Faulty variant: the header asks for a receive mailbox.
transmit_header_receive == [default_transmit EXCEPT !.code = Receive("Empty", FALSE)]

\* transmit and transmit_quick: default_transmit with code DataRemote
transmit_header == [default_transmit EXCEPT !.code = Transmit("DataRemote")]

\* init: CanFrame::from(ExtendedDataFrame::new(ExtendedID::new(0)))
filter_frame == DataFrame(TRUE, 0, <<>>)

(***************************************************************************)
(* Raw mailbox access.  st = [ram, iflag] is the register state an         *)
(* operation starts from; the result carries the state it leaves.          *)
(***************************************************************************)
Regs(r, f) == [ram |-> r, iflag |-> f]

\* can.iflag1.write(|w| w.bits(1 << mailbox)): write-one-to-clear
iflag_write(st, mailbox) == [st EXCEPT !.iflag = @ \ {mailbox}]

code_bits(st, mailbox) == get_bits(st.ram[mailbox].cs, 24, 28)

read_mailbox_code(st, mailbox) == decode(code_bits(st, mailbox))

\* Faulty variant: an Overrun mailbox is not refused.
write_refused_but_overrun(code) ==
    \/ code = Transmit("DataRemote")
    \/ code = Transmit("Tanswer")
    \/ code.kind = "Receive" /\ code.state \in {"Empty", "Full", "Ranswer"}

\* The codes on which write_mailbox refuses to write.
write_refused(code) ==
    \/ code = Transmit("DataRemote")
    \/ code = Transmit("Tanswer")
    \/ code.kind = "Receive" /\ code.state \in {"Empty", "Overrun", "Full", "Ranswer"}

\* (the trailing .get_bits(0..32) of the code is the identity on a u32)
id_word(header, frame) ==
    IF frame.ext
    THEN set_bits(set_bits(0, 0, 29, frame.id), 29, 32, header.priority)
    ELSE set_bits(set_bits(0, 18, 29, frame.id), 29, 32, header.priority)

\* for index in 0..data.len(): embedded_ram[start + 2 + index / 4].modify(...)
RECURSIVE write_data(_, _, _)
write_data(dw, data, index) ==
    IF index >= Len(data)
    THEN dw
    ELSE write_data(
             [dw EXCEPT ![(index \div 4) + 1] =
                 lane_set_bits(@, 32 - 8 * (1 + (index % 4)), data[index + 1])],
             data, index + 1)

\* Bit 31 (CAN-FD frame) is set to 0 in a word that starts as 0: it stays out.
control_word(header, frame, data_length) ==
    set_bits(
        set_bits(
            set_bit(
                set_bit(
                    set_bit(
                        set_bits(
                            set_bit(0, 29, header.error_state_indicator),
                            24, 28, u8_from(header.code)),
                        22, TRUE),
                    21, frame.ext),
                20, frame.rtr),
            16, 20, data_length),
        0, 15, header.time_stamp)

write_mailbox(st, header, frame, mailbox) ==
    LET current == decode(code_bits(st, mailbox)) IN
    IF current.tag = "Err"
    THEN [st |-> st, res |-> "Panic"]
    ELSE IF write_refused(current.val)
    THEN [st |-> st, res |-> "BusyMailboxWriteAttempted"]
    ELSE LET s1 == iflag_write(st, mailbox)
             data_length == IF frame.rtr THEN 0 ELSE Len(frame.data)
             mb == [cs |-> control_word(header, frame, data_length),
                    idw |-> id_word(header, frame),
                    dw |-> IF frame.rtr
                           THEN s1.ram[mailbox].dw
                           ELSE write_data(s1.ram[mailbox].dw, frame.data, 0)]
         IN [st |-> [s1 EXCEPT !.ram[mailbox] = mb], res |-> "Ok"]

\* Faulty variant: the control word is written before the other words.
write_steps_code_first(frame) ==
    <<[reg |-> "iflag1", index |-> 0], [reg |-> "cs", index |-> 0],
      [reg |-> "id", index |-> 0]>>
        \o [k \in 1 .. (IF frame.rtr THEN 0 ELSE Len(frame.data)) |->
               [reg |-> "data", index |-> k - 1]]

\* The register writes of a write_mailbox call that passed the busy check,
\* in program order: IFLAG1, the ID word, one data word per payload byte,
\* the control and status word.
write_steps(frame) ==
    <<[reg |-> "iflag1", index |-> 0], [reg |-> "id", index |-> 0]>>
        \o [k \in 1 .. (IF frame.rtr THEN 0 ELSE Len(frame.data)) |->
               [reg |-> "data", index |-> k - 1]]
        \o <<[reg |-> "cs", index |-> 0]>>

\* One of those register writes.
write_step(st, header, frame, mailbox, step) ==
    CASE step.reg = "iflag1" -> iflag_write(st, mailbox)
      [] step.reg = "id" -> [st EXCEPT !.ram[mailbox].idw = id_word(header, frame)]
      [] step.reg = "data" ->
             [st EXCEPT !.ram[mailbox].dw[(step.index \div 4) + 1] =
                 lane_set_bits(@, 32 - 8 * (1 + (step.index % 4)),
                               frame.data[step.index + 1])]
      [] step.reg = "cs" ->
             [st EXCEPT !.ram[mailbox].cs =
                 control_word(header, frame,
                              IF frame.rtr THEN 0 ELSE Len(frame.data))]

\* for i in 0..dlc: data[i] = embedded_ram[start + 2 + i / 4] bits ...
read_data(dw, dlc) ==
    [i \in 1 .. dlc |->
        lane_get_bits(dw[((i - 1) \div 4) + 1], 32 - 8 * (1 + ((i - 1) % 4)))]

read_id(mbox, extended_id) ==
    IF extended_id THEN get_bits(mbox.idw, 0, 28) ELSE get_bits(mbox.idw, 18, 28)

\* outcome: "Ok", "Spin" (the busy bit is set and only the peripheral clears
\* it) or "Panic" (an unwrap of a failed decode, a payload index past 8).
read_mailbox(st, mailbox) ==
    LET mbox == st.ram[mailbox]
        cs == mbox.cs
        code == decode(get_bits(cs, 24, 28))
        extended_id == get_bit(cs, 21)
        dlc == get_bits(cs, 16, 20)
        remote_frame == get_bit(cs, 20)
        id == read_id(mbox, extended_id)
        none == [outcome |-> "Panic", st |-> st,
                 header |-> default_transmit, frame |-> NoFrame]
    IN  IF code.tag = "Err"
        THEN none
        ELSE IF code.val.kind = "Receive" /\ code.val.busy
        THEN [none EXCEPT !.outcome = "Spin"]
        ELSE IF ~remote_frame /\ dlc > 8
        THEN none
        ELSE [outcome |-> "Ok",
              st |-> iflag_write(st, mailbox),
              header |-> MailboxHeader(get_bit(cs, 29), code.val,
                                       get_bits(cs, 0, 15),
                                       get_bits(mbox.idw, 29, 32)),
              frame |-> IF remote_frame
                        THEN RemoteFrame(extended_id, id)
                        ELSE DataFrame(extended_id, id, read_data(mbox.dw, dlc))]

\* A control word carrying nothing but a code.
code_only(code) == set_bits(0, 24, 28, u8_from(code))

\* Faulty variant: a reserved code pattern is left in place.
inactivate_mailbox_reserved(st, mailbox) ==
    LET current == decode(code_bits(st, mailbox))
    IN IF current.tag = "Err"
       THEN st
       ELSE [st EXCEPT !.ram[mailbox].cs =
                IF current.val.kind = "Transmit"
                THEN code_only(Transmit("Inactive"))
                ELSE code_only(Receive("Inactive", FALSE))]

inactivate_mailbox(st, mailbox) ==
    LET current == decode(code_bits(st, mailbox))
        cs == IF current.tag = "Err"
              THEN 0
              ELSE IF current.val.kind = "Transmit"
              THEN code_only(Transmit("Inactive"))
              ELSE code_only(Receive("Inactive", FALSE))
    IN [st EXCEPT !.ram[mailbox].cs = cs]

(***************************************************************************)
(* abort_mailbox.  hw is what the peripheral does with the abort request   *)
(* while the call runs:                                                    *)
(*   "pending"  nothing yet: the code is still the Abort the driver wrote  *)
(*   "aborted"  it cancelled the frame: code Abort, completion flag set    *)
(*   "sent"     it had sent the frame: code Inactive, completion flag set  *)
(*   "early"    it answered before the driver's wait loop looked at the    *)
(*              flag: the loop waits for the flag to be clear again, and   *)
(*              nothing clears it                                          *)
(***************************************************************************)
AbortOutcomes == {"pending", "aborted", "sent", "early"}

\* reread: the call got to its read_mailbox; flagged: the completion flag
\* was set when it did.
abort_mailbox(st, mailbox, hw) ==
    IF decode(code_bits(st, mailbox)) # Ok(Transmit("DataRemote"))
    THEN [outcome |-> "Ok", st |-> st, some |-> FALSE, frame |-> NoFrame,
          reread |-> FALSE, flagged |-> FALSE]
    ELSE LET s1 == iflag_write(st, mailbox)
             s2 == [s1 EXCEPT !.ram[mailbox].cs = code_only(Transmit("Abort"))]
             s3 == CASE hw = "pending" -> s2
                     [] hw = "sent" ->
                          [s2 EXCEPT !.ram[mailbox].cs = code_only(Transmit("Inactive")),
                                     !.iflag = @ \cup {mailbox}]
                     [] OTHER -> [s2 EXCEPT !.iflag = @ \cup {mailbox}]
             r == read_mailbox(s3, mailbox)
             none == [outcome |-> "Ok", st |-> r.st, some |-> FALSE, frame |-> NoFrame,
                      reread |-> TRUE, flagged |-> mailbox \in s3.iflag]
         IN  IF hw = "early"
             THEN [none EXCEPT !.outcome = "Spin", !.st = s3, !.reread = FALSE]
             ELSE IF r.outcome # "Ok"
             THEN [none EXCEPT !.outcome = r.outcome]
             ELSE IF r.header.code = Transmit("Abort")
             THEN [none EXCEPT !.some = TRUE, !.frame = r.frame]
             ELSE IF r.header.code = Transmit("Inactive")
             THEN none
             ELSE [none EXCEPT !.outcome = "Panic"]

(***************************************************************************)
(* Can::transmit_quick, Can::transmit, Can::receive                        *)
(* A result is [status, some, frame]: status "Ok" with the optional frame, *)
(* "BufferExhausted", "Panic" (unwrap, unreachable!) or "Spin" (the call   *)
(* sits in a wait loop that only the peripheral can end).                  *)
(***************************************************************************)
Result(status, some, frame) == [status |-> status, some |-> some, frame |-> frame]

RECURSIVE transmit_quick_from(_, _, _)
transmit_quick_from(st, frame, i) ==
    IF i >= TX_MAILBOXES
    THEN [st |-> st, ret |-> Result("BufferExhausted", FALSE, NoFrame)]
    ELSE LET code == read_mailbox_code(st, i) IN
         IF code.tag = "Err"
         THEN [st |-> st, ret |-> Result("Panic", FALSE, NoFrame)]
         ELSE IF code.val = Transmit("Inactive")
         THEN LET w == write_mailbox(st, transmit_header, frame, i) IN
              IF w.res = "Ok"
              THEN [st |-> w.st, ret |-> Result("Ok", FALSE, NoFrame)]
              ELSE IF w.res = "Panic"
              THEN [st |-> w.st, ret |-> Result("Panic", FALSE, NoFrame)]
              ELSE transmit_quick_from(w.st, frame, i + 1)
         ELSE transmit_quick_from(st, frame, i + 1)

\* Faulty variant: the pass starts one mailbox late.
transmit_quick_skip_first(st, frame) == transmit_quick_from(st, frame, 1)

transmit_quick(st, frame) == transmit_quick_from(st, frame, 0)

\* Variant: the scan remembers the identifier of the held frame.
track_highest_held(old_frame, frame, highest_id) ==
    IF old_frame.id > highest_id THEN old_frame.id ELSE highest_id

\* if u32::from(old_frame.id()) > highest_id { highest_id = u32::from(frame.id()); ... }
track_highest(old_frame, frame, highest_id) ==
    IF old_frame.id > highest_id THEN frame.id ELSE highest_id

\* abort_mailbox(mailbox_number), then write_mailbox(...).unwrap()
evict(st, frame, mailbox_number, hw) ==
    LET a == abort_mailbox(st, mailbox_number, hw) IN
    IF a.outcome # "Ok"
    THEN [st |-> a.st, ret |-> Result(a.outcome, FALSE, NoFrame)]
    ELSE LET w == write_mailbox(a.st, transmit_header, frame, mailbox_number) IN
         IF w.res = "Ok"
         THEN [st |-> w.st, ret |-> Result("Ok", a.some, a.frame)]
         ELSE [st |-> w.st, ret |-> Result("Panic", FALSE, NoFrame)]

\* Faulty variant: the eviction test with >= for >.
transmit_evict_ge(st, frame, highest_id, mailbox_number, hw) ==
    IF highest_id >= frame.id
    THEN evict(st, frame, mailbox_number, hw)
    ELSE [st |-> st, ret |-> Result("BufferExhausted", FALSE, NoFrame)]

\* The part of transmit after the scan: evict or give up.
transmit_evict(st, frame, highest_id, mailbox_number, hw) ==
    IF highest_id > frame.id
    THEN evict(st, frame, mailbox_number, hw)
    ELSE [st |-> st, ret |-> Result("BufferExhausted", FALSE, NoFrame)]

RECURSIVE transmit_from(_, _, _, _, _, _)
transmit_from(st, frame, i, highest_id, mailbox_number, hw) ==
    IF i >= TX_MAILBOXES
    THEN transmit_evict(st, frame, highest_id, mailbox_number, hw)
    ELSE LET r == read_mailbox(st, i) IN
         IF r.outcome # "Ok"
         THEN [st |-> r.st, ret |-> Result(r.outcome, FALSE, NoFrame)]
         ELSE IF r.header.code = Transmit("Inactive")
         THEN LET w == write_mailbox(r.st, transmit_header, frame, i) IN
              IF w.res = "Ok"
              THEN [st |-> w.st, ret |-> Result("Ok", FALSE, NoFrame)]
              ELSE [st |-> w.st, ret |-> Result("Panic", FALSE, NoFrame)]
         ELSE IF r.header.code = Transmit("DataRemote")
         THEN transmit_from(r.st, frame, i + 1,
                            track_highest(r.frame, frame, highest_id),
                            IF r.frame.id > highest_id THEN i ELSE mailbox_number,
                            hw)
         ELSE [st |-> r.st, ret |-> Result("Panic", FALSE, NoFrame)]

\* Faulty variant: the scan starts one mailbox late.
transmit_skip_first(st, frame, hw) == transmit_from(st, frame, 1, 0, -1, hw)

\* mailbox_number starts as usize::max_value(); -1 stands for it.
transmit(st, frame, hw) == transmit_from(st, frame, 0, 0, -1, hw)

RECURSIVE receive_from(_, _)
receive_from(st, i) ==
    IF i >= TX_MAILBOXES + RX_MAILBOXES
    THEN [st |-> st, ret |-> Result("BufferExhausted", FALSE, NoFrame)]
    ELSE IF i \in st.iflag
    THEN LET r == read_mailbox(st, i) IN
         IF r.outcome = "Ok"
         THEN [st |-> r.st, ret |-> Result("Ok", TRUE, r.frame)]
         ELSE [st |-> r.st, ret |-> Result(r.outcome, FALSE, NoFrame)]
    ELSE receive_from(st, i + 1)

\* Faulty variant: the scan starts at mailbox 0.
receive_from_zero(st) == receive_from(st, 0)

receive(st) == receive_from(st, TX_MAILBOXES)

(***************************************************************************)
(* Can::init: bit timing                                                   *)
(***************************************************************************)
Timing(status, presdiv, tqs, pseg1, pseg2, propseg, rjw) ==
    [status |-> status, presdiv |-> presdiv, tqs |-> tqs, pseg1 |-> pseg1,
     pseg2 |-> pseg2, propseg |-> propseg, rjw |-> rjw]

\* Table 50-26: tqs -> (pseg2, rjw); <<>> where the code panics.
pseg2_rjw(tqs) ==
    IF tqs >= 8 /\ tqs < 10 THEN <<1, 1>>
    ELSE IF tqs >= 10 /\ tqs < 15 THEN <<3, 2>>
    ELSE IF tqs >= 15 /\ tqs < 20 THEN <<6, 2>>
    ELSE IF tqs >= 20 /\ tqs < 26 THEN <<7, 3>>
    ELSE <<>>

\* Faulty variant: the propagation segment gives up one quantum only.
segments_short(tqs, pseg2, rjw, presdiv) ==
    LET pseg1 == ((tqs - (pseg2 + 1)) \div 2) - 1
        propseg == tqs - (pseg2 + 1) - (pseg1 + 1) - 1
    IN Timing("Ok", presdiv, tqs, pseg1, pseg2, propseg, rjw)

segments(tqs, pseg2, rjw, presdiv) ==
    LET pseg1 == ((tqs - (pseg2 + 1)) \div 2) - 1
        propseg == tqs - (pseg2 + 1) - (pseg1 + 1) - 2
    IN Timing("Ok", presdiv, tqs, pseg1, pseg2, propseg, rjw)

\* can_frequency = 0 makes the first % panic (division by zero).
bit_timing(source_frequency, can_frequency) ==
    IF can_frequency = 0
    THEN Timing("Panic", 0, 0, 0, 0, 0, 0)
    ELSE IF source_frequency % can_frequency # 0
            \/ source_frequency < can_frequency * 5
    THEN Timing("SettingsError", 0, 0, 0, 0, 0, 0)
    ELSE LET presdiv == (source_frequency \div can_frequency) \div 25
             tqs == (source_frequency \div (presdiv + 1)) \div can_frequency
             t == pseg2_rjw(tqs)
         IN IF t = <<>>
            THEN Timing("Panic", presdiv, tqs, 0, 0, 0, 0)
            ELSE segments(tqs, t[1], t[2], presdiv)

None == [some |-> FALSE, val |-> 0]
Some(v) == [some |-> TRUE, val |-> v]

\* Faulty variant: the core clock whatever the settings select.
select_source_core(settings, spc) == Ok(spc.core_freq)

\* spc.core_freq() or spc.soscdiv2_freq().ok_or(ClockSourceDisabled)
select_source(settings, spc) ==
    IF settings.clock_source = "Sys"
    THEN Ok(spc.core_freq)
    ELSE IF spc.soscdiv2_freq.some
    THEN Ok(spc.soscdiv2_freq.val)
    ELSE Err("ClockSourceDisabled")

(***************************************************************************)
(* Mode sequencing on MCR.  Each function is the driver's write followed   *)
(* by the acknowledgment it polls for, which the peripheral gives.         *)
(***************************************************************************)
enable(m) == [m EXCEPT !.mdis = FALSE, !.lpmack = FALSE]

disable(m) == [m EXCEPT !.mdis = TRUE, !.lpmack = TRUE]

\* soft reset: SOFTRST is set and reads back 0 when the reset is done
soft_reset(m) == [m EXCEPT !.softrst = FALSE]

enter_freeze(m) == [m EXCEPT !.frz = TRUE, !.halt = TRUE, !.frzack = TRUE]

\* Faulty variant: HALT stays set, so the peripheral stays frozen.
leave_freeze_halted(m) == [m EXCEPT !.frz = FALSE]

leave_freeze(m) == [m EXCEPT !.halt = FALSE, !.frz = FALSE, !.frzack = FALSE]

\* reset(): disable, CTRL1.CLKSRC = 1, enable, soft reset, disable
reset(c) ==
    [c EXCEPT !.mcr = disable(soft_reset(enable(disable(@)))),
              !.ctrl1.clksrc = TRUE]

\* The two mailbox loops of init: inactivate, then write the default header.
RECURSIVE init_mailboxes(_, _)
init_mailboxes(st, mb) ==
    IF mb >= TX_MAILBOXES + RX_MAILBOXES
    THEN [st |-> st, res |-> "Ok"]
    ELSE LET w == write_mailbox(inactivate_mailbox(st, mb),
                                IF mb < TX_MAILBOXES
                                THEN default_transmit ELSE default_receive,
                                filter_frame, mb)
         IN IF w.res = "Ok"
            THEN init_mailboxes(w.st, mb + 1)
            ELSE [st |-> w.st, res |-> "Panic"]

\* The register writes of init between enter_freeze and the mailbox loops.
\* A field writer keeps the low bits that fit the field (as u8, then masked).
configure(c, settings, t) ==
    [c EXCEPT !.mcr = [@ EXCEPT !.rfen = settings.rx_fifo,
                                !.srxdis = ~settings.self_reception,
                                !.irmq = settings.individual_masking,
                                !.aen = TRUE,
                                !.dma = settings.rx_fifo /\ FALSE,
                                !.maxmb = (RX_MAILBOXES + TX_MAILBOXES) - 1],
              !.ctrl1 = [@ EXCEPT !.presdiv = t.presdiv % 256,
                                  !.pseg1 = t.pseg1 % 8,
                                  !.pseg2 = t.pseg2 % 8,
                                  !.propseg = t.propseg % 8,
                                  !.rjw = t.rjw % 4,
                                  !.lpb = settings.loopback_mode],
              !.tdcen = IF settings.loopback_mode THEN FALSE ELSE @,
              !.rxmgmask = 0]

InitStepOf(op, mb) == [op |-> op, mb |-> mb]

\* Faulty variant: freeze mode is left before the completion flags are cleared.
init_steps_leave_early ==
    <<InitStepOf("reset", 0), InitStepOf("clksrc", 0), InitStepOf("enable", 0),
      InitStepOf("enter_freeze", 0), InitStepOf("configure", 0)>>
        \o [k \in 1 .. (TX_MAILBOXES + RX_MAILBOXES) |-> InitStepOf("mailbox", k - 1)]
        \o <<InitStepOf("leave_freeze", 0), InitStepOf("iflag1", 0)>>

\* What init does to the registers once the settings are accepted, in
\* program order.
init_steps ==
    <<InitStepOf("reset", 0), InitStepOf("clksrc", 0), InitStepOf("enable", 0),
      InitStepOf("enter_freeze", 0), InitStepOf("configure", 0)>>
        \o [k \in 1 .. (TX_MAILBOXES + RX_MAILBOXES) |-> InitStepOf("mailbox", k - 1)]
        \o <<InitStepOf("iflag1", 0), InitStepOf("leave_freeze", 0)>>

\* One of those steps, on mailbox state st and configuration registers c.
init_step(st, c, settings, t, step) ==
    CASE step.op = "reset" -> [st |-> st, cfg |-> reset(c)]
      [] step.op = "clksrc" ->
             [st |-> st,
              cfg |-> [c EXCEPT !.ctrl1.clksrc = (settings.clock_source = "Sys")]]
      [] step.op = "enable" -> [st |-> st, cfg |-> [c EXCEPT !.mcr = enable(@)]]
      [] step.op = "enter_freeze" ->
             [st |-> st, cfg |-> [c EXCEPT !.mcr = enter_freeze(@)]]
      [] step.op = "configure" -> [st |-> st, cfg |-> configure(c, settings, t)]
      [] step.op = "mailbox" ->
             [st |-> write_mailbox(inactivate_mailbox(st, step.mb),
                                   IF step.mb < TX_MAILBOXES
                                   THEN default_transmit ELSE default_receive,
                                   filter_frame, step.mb).st,
              cfg |-> c]
      [] step.op = "iflag1" -> [st |-> [st EXCEPT !.iflag = {}], cfg |-> c]
      [] step.op = "leave_freeze" ->
             [st |-> st, cfg |-> [c EXCEPT !.mcr = leave_freeze(@)]]

\* Faulty variant: reset(can) runs before the settings are validated.
init_reset_first(st, c, settings, spc) ==
    LET src == select_source(settings, spc)
        t == bit_timing(src.val, settings.can_frequency)
        c1 == reset(c)
        c2 == [c1 EXCEPT !.ctrl1.clksrc = (settings.clock_source = "Sys")]
        c3 == [c2 EXCEPT !.mcr = enter_freeze(enable(@))]
        c4 == configure(c3, settings, t)
        m == init_mailboxes(st, 0)
        c5 == [c4 EXCEPT !.mcr = leave_freeze(@)]
    IN  IF src.tag = "Err"
        THEN [status |-> src.val, timing |-> Timing("None", 0, 0, 0, 0, 0, 0),
              st |-> st, cfg |-> c1]
        ELSE IF t.status # "Ok"
        THEN [status |-> t.status, timing |-> t, st |-> st, cfg |-> c1]
        ELSE IF m.res # "Ok"
        THEN [status |-> "Panic", timing |-> t, st |-> m.st, cfg |-> c4]
        ELSE [status |-> "Ok", timing |-> t,
              st |-> [m.st EXCEPT !.iflag = {}], cfg |-> c5]

\* Can::init on registers [st, cfg]: the status, the timing and the registers left.
init(st, c, settings, spc) ==
    LET src == select_source(settings, spc)
        t == bit_timing(src.val, settings.can_frequency)
        c1 == reset(c)
        c2 == [c1 EXCEPT !.ctrl1.clksrc = (settings.clock_source = "Sys")]
        c3 == [c2 EXCEPT !.mcr = enter_freeze(enable(@))]
        c4 == configure(c3, settings, t)
        m == init_mailboxes(st, 0)
        c5 == [c4 EXCEPT !.mcr = leave_freeze(@)]
    IN  IF src.tag = "Err"
        THEN [status |-> src.val, timing |-> Timing("None", 0, 0, 0, 0, 0, 0),
              st |-> st, cfg |-> c]
        ELSE IF t.status # "Ok"
        THEN [status |-> t.status, timing |-> t, st |-> st, cfg |-> c]
        ELSE IF m.res # "Ok"
        THEN [status |-> "Panic", timing |-> t, st |-> m.st, cfg |-> c4]
        ELSE [status |-> "Ok", timing |-> t,
              st |-> [m.st EXCEPT !.iflag = {}], cfg |-> c5]

(***************************************************************************)
(* Bounds and input sets                                                   *)
(***************************************************************************)
MaxHwTx == 1          \* transmissions the peripheral completes
MaxHwRx == 2          \* frames the peripheral receives
MaxRxSends == 1       \* transmit_quick calls in the receive study
MaxRun == 9           \* consecutive transmit_quick calls that are recorded
MaxStoreWrites == 1   \* write_mailbox calls on a drawn mailbox store
MaxRatio == 130       \* largest source / can_frequency ratio handed to init

\* What mailbox RAM holds before init wrote it: every payload byte is fill.
PowerOnFills == {165}

\* Frames handed to transmit.
TxFrames == {DataFrame(FALSE, 256, <<17>>), DataFrame(FALSE, 1280, <<>>)}

\* The frame transmit_quick is handed.
QuickFrames == {DataFrame(TRUE, 74565, <<1, 2, 3, 4, 5, 6, 7, 8>>)}

\* Frames arriving from the bus.
RxFrames == {DataFrame(FALSE, 2047, <<1, 2>>), RemoteFrame(TRUE, 74565)}

(***************************************************************************)
(* The registers before init, and init's inputs in the example (an 8 MHz   *)
(* crystal feeding SOSCDIV2, CanSettings::default()).                      *)
(***************************************************************************)
PowerOnMailbox(code, fill) ==
    [cs |-> set_bits(0, 24, 28, code), idw |-> 0,
     dw |-> << <<fill, fill, fill, fill>>, <<fill, fill, fill, fill>> >>]

PowerOnRegs(code, fill, flags) ==
    Regs([mb \in Mailboxes |-> PowerOnMailbox(code, fill)], flags)

PowerOnCfg ==
    [mcr |-> [mdis |-> TRUE, lpmack |-> TRUE, frz |-> TRUE, halt |-> TRUE,
              frzack |-> FALSE, softrst |-> FALSE, rfen |-> FALSE,
              srxdis |-> FALSE, irmq |-> FALSE, aen |-> FALSE, dma |-> FALSE,
              maxmb |-> (RX_MAILBOXES + TX_MAILBOXES) - 1],
     ctrl1 |-> [clksrc |-> FALSE, presdiv |-> 0, pseg1 |-> 0, pseg2 |-> 0,
                propseg |-> 0, rjw |-> 0, lpb |-> FALSE],
     rxmgmask |-> 0,
     tdcen |-> FALSE]

Settings(clock_source, can_frequency, loopback_mode) ==
    [warning_interrupt |-> FALSE, self_reception |-> TRUE, rx_fifo |-> FALSE,
     individual_masking |-> FALSE, loopback_mode |-> loopback_mode,
     can_frequency |-> can_frequency, clock_source |-> clock_source]

DefaultSettings == Settings("Soscdiv2", 1000 * 1000, FALSE)

ExampleSpc == [core_freq |-> 48 * 1000 * 1000, soscdiv2_freq |-> Some(8 * 1000 * 1000)]

NoPre == Regs(<<>>, {})

NoResult == Result("None", FALSE, NoFrame)

Hist0 == [hwtx |-> 0, hwrx |-> 0, sent |-> 0, writes |-> 0, run |-> <<>>]

\* The driver as Can::init returned it.
DriverInit ==
    \E fill \in PowerOnFills :
        LET p == PowerOnRegs(0, fill, {})
            r == init(p, PowerOnCfg, DefaultSettings, ExampleSpc)
        IN /\ ram = r.st.ram
           /\ iflag = r.st.iflag
           /\ cfg = r.cfg
           /\ arg = [op |-> "init", settings |-> DefaultSettings, spc |-> ExampleSpc]
           /\ pre = p
           /\ ret = [status |-> r.status, timing |-> r.timing]
           /\ hist = Hist0

\* The process is running: no call has panicked or is stuck in a wait loop.
Alive == ret.status \notin {"Panic", "Spin"}

Inactive(st) == {i \in TxMailboxes : read_mailbox_code(st, i) = Ok(Transmit("Inactive"))}

(***************************************************************************)
(* Driver calls                                                            *)
(***************************************************************************)
Call(op, frame, r) ==
    /\ ram' = r.st.ram
    /\ iflag' = r.st.iflag
    /\ arg' = [op |-> op, frame |-> frame]
    /\ pre' = Regs(ram, iflag)
    /\ ret' = r.ret
    /\ UNCHANGED cfg

\* The scan of transmit decides alone whether a mailbox is evicted; only then
\* does the peripheral's answer to the abort request matter.
Evicts(st, frame) ==
    /\ Inactive(st) = {}
    /\ transmit(st, frame, "early").ret.status = "Spin"

CanTransmit(frame) ==
    /\ Alive
    /\ \E hw \in IF Evicts(Regs(ram, iflag), frame) THEN AbortOutcomes ELSE {"pending"} :
           Call("transmit", frame, transmit(Regs(ram, iflag), frame, hw))
    /\ UNCHANGED hist

TransmitQuickCall(frame) ==
    /\ Alive
    /\ Call("transmit_quick", frame, transmit_quick(Regs(ram, iflag), frame))

\* transmit_quick with the run of consecutive calls written down: the result,
\* the mailboxes the call changed, the Inactive mailboxes it found.
CanTransmitQuickRun(frame) ==
    /\ Len(hist.run) < MaxRun
    /\ TransmitQuickCall(frame)
    /\ hist' = [hist EXCEPT !.run = Append(@,
                   [status |-> ret'.status,
                    written |-> {i \in TxMailboxes : ram'[i] # ram[i]},
                    free |-> Cardinality(Inactive(Regs(ram, iflag)))])]

\* A receive that finds its mailbox busy waits for the peripheral: the call
\* takes effect once the busy bit is gone.
CanReceive ==
    /\ Alive
    /\ LET r == receive(Regs(ram, iflag)) IN
        /\ r.ret.status # "Spin"
        /\ Call("receive", NoFrame, r)
    /\ UNCHANGED hist

(***************************************************************************)
(* The peripheral                                                          *)
(***************************************************************************)
Hw ==
    /\ arg' = [op |-> "hw", frame |-> NoFrame]
    /\ pre' = NoPre
    /\ ret' = NoResult
    /\ UNCHANGED cfg

\* A pending frame went out on the bus and the completion flag is set.  A
\* data frame leaves its mailbox Inactive; a remote request (RTR set) leaves
\* it as an empty receive mailbox that waits for the answer.
HwTransmitDone(i) ==
    /\ Alive
    /\ hist.hwtx < MaxHwTx
    /\ read_mailbox_code(Regs(ram, iflag), i) = Ok(Transmit("DataRemote"))
    /\ ram' = [ram EXCEPT ![i].cs =
                  set_bits(@, 24, 28,
                           u8_from(IF get_bit(@, 20)
                                   THEN Receive("Empty", FALSE)
                                   ELSE Transmit("Inactive")))]
    /\ iflag' = iflag \cup {i}
    /\ hist' = [hist EXCEPT !.hwtx = @ + 1, !.run = <<>>]
    /\ Hw

RxReady(code) ==
    /\ code.tag = "Ok"
    /\ code.val.kind = "Receive"
    /\ code.val.state \in {"Empty", "Full", "Overrun"}

\* A matching frame is on its way into mailbox i: the busy bit goes up.
HwReceiveStart(i) ==
    /\ Alive
    /\ hist.hwrx < MaxHwRx
    /\ LET code == read_mailbox_code(Regs(ram, iflag), i) IN
        /\ RxReady(code)
        /\ ~code.val.busy
        /\ ram' = [ram EXCEPT ![i].cs =
                      set_bits(@, 24, 28, u8_from(Receive(code.val.state, TRUE)))]
    /\ hist' = [hist EXCEPT !.hwrx = @ + 1]
    /\ UNCHANGED iflag
    /\ Hw

\* The frame is stored: Empty becomes Full, a mailbox whose last frame was
\* not yet read becomes Overrun; the busy bit goes down, the flag up.
HwReceiveEnd(i, frame) ==
    /\ Alive
    /\ LET code == read_mailbox_code(Regs(ram, iflag), i)
           next == IF code.val.state # "Empty" /\ i \in iflag THEN "Overrun" ELSE "Full"
           h == MailboxHeader(FALSE, Receive(next, FALSE), 0, 0)
       IN /\ RxReady(code)
          /\ code.val.busy
          /\ ram' = [ram EXCEPT ![i] =
                        [cs |-> control_word(h, frame, Len(frame.data)),
                         idw |-> id_word(h, frame),
                         dw |-> write_data(@.dw, frame.data, 0)]]
    /\ iflag' = iflag \cup {i}
    /\ UNCHANGED hist
    /\ Hw

(***************************************************************************)
(* Can::transmit against the peripheral                                    *)
(***************************************************************************)
NextTx ==
    \/ \E f \in TxFrames : CanTransmit(f)
    \/ \E i \in TxMailboxes : HwTransmitDone(i)

SpecTx == DriverInit /\ [][NextTx]_vars

(***************************************************************************)
(* Runs of transmit_quick calls with no other call in between              *)
(***************************************************************************)
NextQuick ==
    \/ \E f \in QuickFrames : CanTransmitQuickRun(f)
    \/ \E i \in TxMailboxes : HwTransmitDone(i)

SpecQuick == DriverInit /\ [][NextQuick]_vars

(***************************************************************************)
(* The driver's receive side against the peripheral                        *)
(***************************************************************************)
CanTransmitQuickFew(frame) ==
    /\ hist.sent < MaxRxSends
    /\ TransmitQuickCall(frame)
    /\ hist' = [hist EXCEPT !.sent = @ + 1]

NextRx ==
    \/ CanReceive
    \/ \E i \in RxMailboxes : HwReceiveStart(i)
    \/ \E i \in RxMailboxes, f \in RxFrames : HwReceiveEnd(i, f)
    \/ \E f \in QuickFrames : CanTransmitQuickFew(f)
    \/ \E i \in TxMailboxes : HwTransmitDone(i)

SpecRx == DriverInit /\ [][NextRx]_vars

(***************************************************************************)
(* The whole driver against the peripheral: transmit, transmit_quick and   *)
(* receive in any order, with completions and receptions in between.       *)
(***************************************************************************)
\* The receive mailboxes frames arrive in here, the first and the last; the
\* frames are the driver's own (self_reception is on).
DriverRxMailboxes == {TX_MAILBOXES, (TX_MAILBOXES + RX_MAILBOXES) - 1}

NextDriver ==
    \/ \E f \in QuickFrames : CanTransmit(f)
    \/ \E f \in QuickFrames : CanTransmitQuickFew(f)
    \/ CanReceive
    \/ \E i \in TxMailboxes : HwTransmitDone(i)
    \/ \E i \in DriverRxMailboxes : HwReceiveStart(i)
    \/ \E i \in DriverRxMailboxes, f \in QuickFrames : HwReceiveEnd(i, f)

SpecDriver == DriverInit /\ [][NextDriver]_vars

(***************************************************************************)
(* write_mailbox and read_mailbox on a mailbox store in any condition:     *)
(* every mailbox carries one of the 16 code patterns and stale payload     *)
(* bytes, with the completion flags all clear or all set.                  *)
(***************************************************************************)
CodePatterns == 0 .. (Pow2(4) - 1)

StoreMailboxes == {0, (TX_MAILBOXES + RX_MAILBOXES) - 1}

Payload(n) == [i \in 1 .. n |-> (i * 37 + n) % 256]

\* Identifiers with the top bit of their width clear (even n) and set (odd n).
BaseIdOf(n) == IF n % 2 = 0 THEN 682 + n ELSE (Pow2(11) - 1) - n
ExtendedIdOf(n) == IF n % 2 = 0 THEN (Pow2(28) - 1) - n ELSE (Pow2(29) - 1) - n

StoreFrames ==
    {DataFrame(FALSE, BaseIdOf(n), Payload(n)) : n \in 0 .. 8}
        \cup {DataFrame(TRUE, ExtendedIdOf(n), Payload(n)) : n \in 0 .. 8}
        \cup {RemoteFrame(FALSE, BaseIdOf(n)) : n \in 0 .. 1}
        \cup {RemoteFrame(TRUE, ExtendedIdOf(n)) : n \in 0 .. 1}

StoreArg(op, mailbox, frame, wrote) ==
    [op |-> op, mailbox |-> mailbox, frame |-> frame, wrote |-> wrote]

StoreInit ==
    \E code \in CodePatterns, fill \in PowerOnFills, flags \in {{}, Mailboxes} :
        /\ ram = PowerOnRegs(code, fill, flags).ram
        /\ iflag = flags
        /\ cfg = PowerOnCfg
        /\ arg = StoreArg("none", 0, NoFrame, None)
        /\ pre = NoPre
        /\ ret = NoResult
        /\ hist = Hist0

StoreWrite(mailbox, header, frame) ==
    /\ Alive
    /\ hist.writes < MaxStoreWrites
    /\ LET w == write_mailbox(Regs(ram, iflag), header, frame, mailbox) IN
        /\ ram' = w.st.ram
        /\ iflag' = w.st.iflag
        /\ ret' = Result(w.res, FALSE, NoFrame)
    /\ arg' = StoreArg("write", mailbox, frame, None)
    /\ pre' = Regs(ram, iflag)
    /\ hist' = [hist EXCEPT !.writes = @ + 1]
    /\ UNCHANGED cfg

\* wrote: the frame the call just before wrote into this mailbox, which it
\* had found Inactive.
StoreRead(mailbox) ==
    /\ Alive
    /\ LET r == read_mailbox(Regs(ram, iflag), mailbox) IN
        /\ ram' = r.st.ram
        /\ iflag' = r.st.iflag
        /\ ret' = Result(r.outcome, r.outcome = "Ok", r.frame)
    /\ arg' = StoreArg("read", mailbox, NoFrame,
                  IF /\ arg.op = "write"
                     /\ arg.mailbox = mailbox
                     /\ ret.status = "Ok"
                     /\ read_mailbox_code(pre, mailbox)
                            \in {Ok(Transmit("Inactive")), Ok(Receive("Inactive", FALSE))}
                  THEN Some(arg.frame)
                  ELSE None)
    /\ pre' = Regs(ram, iflag)
    /\ UNCHANGED <<cfg, hist>>

StoreInactivate(mailbox) ==
    /\ Alive
    /\ ram' = inactivate_mailbox(Regs(ram, iflag), mailbox).ram
    /\ arg' = StoreArg("inactivate", mailbox, NoFrame, None)
    /\ pre' = Regs(ram, iflag)
    /\ ret' = Result("Ok", FALSE, NoFrame)
    /\ UNCHANGED <<iflag, cfg, hist>>

NextStore ==
    \/ \E m \in StoreMailboxes, f \in StoreFrames : StoreWrite(m, transmit_header, f)
    \/ \E m \in StoreMailboxes : StoreRead(m)

SpecStore == StoreInit /\ [][NextStore]_vars

(***************************************************************************)
(* write_mailbox one register access at a time.  arg.pc is the next write  *)
(* of write_steps, hist.run the registers written so far.                  *)
(***************************************************************************)
WriteFrames ==
    {DataFrame(TRUE, ExtendedIdOf(1), Payload(8)), DataFrame(FALSE, BaseIdOf(0), Payload(1)),
     RemoteFrame(FALSE, BaseIdOf(1))}

WriteArg(op, mailbox, frame, pc) ==
    [op |-> op, mailbox |-> mailbox, frame |-> frame, pc |-> pc]

\* The call and its busy check: it returns at once, or goes on to its writes.
WriteBegin(mailbox, frame) ==
    /\ Alive
    /\ arg.op # "writing"
    /\ hist.writes < MaxStoreWrites
    /\ LET w == write_mailbox(Regs(ram, iflag), transmit_header, frame, mailbox) IN
        /\ arg' = WriteArg(IF w.res = "Ok" THEN "writing" ELSE "write", mailbox, frame, 1)
        /\ ret' = Result(IF w.res = "Ok" THEN "None" ELSE w.res, FALSE, NoFrame)
    /\ pre' = Regs(ram, iflag)
    /\ hist' = [hist EXCEPT !.writes = @ + 1, !.run = <<>>]
    /\ UNCHANGED <<ram, iflag, cfg>>

WriteStep ==
    /\ arg.op = "writing"
    /\ LET steps == write_steps(arg.frame)
           st == write_step(Regs(ram, iflag), transmit_header, arg.frame,
                            arg.mailbox, steps[arg.pc])
           last == arg.pc = Len(steps)
       IN /\ ram' = st.ram
          /\ iflag' = st.iflag
          /\ arg' = [arg EXCEPT !.op = IF last THEN "write" ELSE "writing", !.pc = @ + 1]
          /\ ret' = IF last THEN Result("Ok", FALSE, NoFrame) ELSE ret
          /\ hist' = [hist EXCEPT !.run = Append(@, steps[arg.pc].reg)]
    /\ UNCHANGED <<cfg, pre>>

NextWrite ==
    \/ \E m \in StoreMailboxes, f \in WriteFrames : WriteBegin(m, f)
    \/ WriteStep

SpecWrite == StoreInit /\ [][NextWrite]_vars

\* inactivate_mailbox on the first and last mailbox of each role.
NextInactivate ==
    \E m \in {0, TX_MAILBOXES - 1, TX_MAILBOXES, (TX_MAILBOXES + RX_MAILBOXES) - 1} :
        StoreInactivate(m)

SpecInactivate == StoreInit /\ [][NextInactivate]_vars

(***************************************************************************)
(* The buffer-state codec: encode a code, decode a pattern, decode what    *)
(* was just encoded.                                                       *)
(***************************************************************************)
CodecArg(op, code, other, bits) ==
    [op |-> op, code |-> code, other |-> other, bits |-> bits]

CodecResult(bits, other_bits, decoded) ==
    [status |-> "Ok", bits |-> bits, other_bits |-> other_bits, decoded |-> decoded]

Encode(code, other) ==
    /\ arg' = CodecArg("encode", code, other, 0)
    /\ ret' = CodecResult(u8_from(code), u8_from(other), Err("unit"))
    /\ UNCHANGED <<ram, iflag, cfg, pre, hist>>

Decode(bits) ==
    /\ arg' = CodecArg("decode", Transmit("Inactive"), Transmit("Inactive"), bits)
    /\ ret' = CodecResult(0, 0, decode(bits))
    /\ UNCHANGED <<ram, iflag, cfg, pre, hist>>

DecodeEncoded ==
    /\ arg.op = "encode"
    /\ arg' = CodecArg("round", arg.code, arg.other, ret.bits)
    /\ ret' = CodecResult(ret.bits, ret.other_bits, decode(ret.bits))
    /\ UNCHANGED <<ram, iflag, cfg, pre, hist>>

NextCodec ==
    \/ \E code \in MessageBufferCodes, other \in MessageBufferCodes : Encode(code, other)
    \/ \E bits \in CodePatterns : Decode(bits)
    \/ DecodeEncoded

SpecCodec == DriverInit /\ [][NextCodec]_vars

(***************************************************************************)
(* Can::init on the registers as power-on left them, for a range of clock  *)
(* frequencies and settings.                                               *)
(***************************************************************************)
CanFrequencies == {125 * 1000, 500 * 1000, 1000 * 1000}

\* source = can_frequency * ratio + off: off 1 is a source that is no multiple.
SourceFrequencies(can_frequency) ==
    {can_frequency * ratio + off : ratio \in 1 .. MaxRatio, off \in {0, 1}}

PowerOn ==
    \E fill \in PowerOnFills :
        /\ ram = PowerOnRegs(0, fill, {}).ram
        /\ iflag = {}
        /\ cfg = PowerOnCfg
        /\ arg = [op |-> "poweron", settings |-> DefaultSettings, spc |-> ExampleSpc]
        /\ pre = NoPre
        /\ ret = [status |-> "None", timing |-> Timing("None", 0, 0, 0, 0, 0, 0)]
        /\ hist = Hist0

CanInit(settings, spc) ==
    /\ arg.op = "poweron"
    /\ LET r == init(Regs(ram, iflag), cfg, settings, spc) IN
        /\ ram' = r.st.ram
        /\ iflag' = r.st.iflag
        /\ cfg' = r.cfg
        /\ ret' = [status |-> r.status, timing |-> r.timing]
    /\ arg' = [op |-> "init", settings |-> settings, spc |-> spc]
    /\ pre' = [ram |-> ram, iflag |-> iflag, cfg |-> cfg]
    /\ UNCHANGED hist

NextInit ==
    \E clock_source \in {"Sys", "Soscdiv2"}, can_frequency \in CanFrequencies,
       loopback_mode \in BOOLEAN, crystal \in BOOLEAN :
        \E source \in SourceFrequencies(can_frequency) :
            CanInit(Settings(clock_source, can_frequency, loopback_mode),
                    [core_freq |-> source,
                     soscdiv2_freq |-> IF crystal THEN Some(source) ELSE None])

SpecInit == PowerOn /\ [][NextInit]_vars

(***************************************************************************)
(* Can::init on a register block in any condition: the mailboxes carry any *)
(* of the 16 code patterns, the completion flags are all clear or all set, *)
(* and the peripheral is as power-on left it or as an earlier init did.    *)
(***************************************************************************)
RunningCfg == init(PowerOnRegs(0, 0, {}), PowerOnCfg, DefaultSettings, ExampleSpc).cfg

Spc(core_freq, soscdiv2_freq) == [core_freq |-> core_freq, soscdiv2_freq |-> soscdiv2_freq]

\* Settings and clocks: accepted ones (ratios 8, 16, 48), a disabled source,
\* a ratio below 5, a source that is no multiple, and a ratio of 5.
SeedInputs ==
    {<<DefaultSettings, ExampleSpc>>,
     <<Settings("Sys", 1000 * 1000, TRUE), ExampleSpc>>,
     <<Settings("Soscdiv2", 500 * 1000, FALSE), ExampleSpc>>,
     <<DefaultSettings, Spc(48 * 1000 * 1000, None)>>,
     <<Settings("Sys", 1000 * 1000, FALSE), Spc(4 * 1000 * 1000, None)>>,
     <<Settings("Sys", 1000 * 1000, FALSE), Spc(8500 * 1000, None)>>,
     <<Settings("Sys", 1000 * 1000, FALSE), Spc(5 * 1000 * 1000, None)>>}

SeedInit ==
    \E code \in CodePatterns, fill \in PowerOnFills, flags \in {{}, Mailboxes},
       c \in {PowerOnCfg, RunningCfg} :
        /\ ram = PowerOnRegs(code, fill, flags).ram
        /\ iflag = flags
        /\ cfg = c
        /\ arg = [op |-> "poweron", settings |-> DefaultSettings, spc |-> ExampleSpc]
        /\ pre = NoPre
        /\ ret = [status |-> "None", timing |-> Timing("None", 0, 0, 0, 0, 0, 0)]
        /\ hist = Hist0

NextSeed == \E in \in SeedInputs : CanInit(in[1], in[2])

SpecSeed == SeedInit /\ [][NextSeed]_vars

(***************************************************************************)
(* Can::init one step at a time.  arg.pc is the next step of init_steps,   *)
(* hist.run the steps taken so far.                                        *)
(***************************************************************************)
\* The validation of the settings: init returns at once, or goes on.
InitBegin(settings, spc) ==
    /\ arg.op = "poweron"
    /\ LET src == select_source(settings, spc)
           t == bit_timing(src.val, settings.can_frequency)
           status == IF src.tag = "Err" THEN src.val ELSE t.status
       IN /\ arg' = [op |-> IF status = "Ok" THEN "initializing" ELSE "init",
                     settings |-> settings, spc |-> spc, pc |-> 1]
          /\ ret' = [status |-> IF status = "Ok" THEN "None" ELSE status,
                     timing |-> IF src.tag = "Err"
                                THEN Timing("None", 0, 0, 0, 0, 0, 0) ELSE t]
    /\ pre' = [ram |-> ram, iflag |-> iflag, cfg |-> cfg]
    /\ UNCHANGED <<ram, iflag, cfg, hist>>

InitStep ==
    /\ arg.op = "initializing"
    /\ LET s == init_step(Regs(ram, iflag), cfg, arg.settings, ret.timing,
                          init_steps[arg.pc])
           last == arg.pc = Len(init_steps)
       IN /\ ram' = s.st.ram
          /\ iflag' = s.st.iflag
          /\ cfg' = s.cfg
          /\ arg' = [arg EXCEPT !.op = IF last THEN "init" ELSE "initializing",
                                !.pc = @ + 1]
          /\ ret' = [ret EXCEPT !.status = IF last THEN "Ok" ELSE "None"]
          /\ hist' = [hist EXCEPT !.run = Append(@, init_steps[arg.pc])]
    /\ UNCHANGED pre

NextInitSteps ==
    \/ \E in \in SeedInputs : InitBegin(in[1], in[2])
    \/ InitStep

SpecInitSteps == SeedInit /\ [][NextInitSteps]_vars

(***************************************************************************)
(* Notions the properties below are stated with                            *)
(***************************************************************************)
\* The frame a mailbox holds, by the layout of the mailbox words: IDE is bit
\* 21 and RTR bit 20 of the control word, DLC its bits 16..19; a base
\* identifier is bits 18..28 of the identifier word, an extended one bits
\* 0..28; payload byte k is byte 3 - k % 4 of payload word k / 4.
Held(mbox) ==
    LET ext == get_bit(mbox.cs, 21)
        id == IF ext THEN get_bits(mbox.idw, 0, 29) ELSE get_bits(mbox.idw, 18, 29)
    IN IF get_bit(mbox.cs, 20)
       THEN RemoteFrame(ext, id)
       ELSE DataFrame(ext, id, read_data(mbox.dw, get_bits(mbox.cs, 16, 20)))

CodeOf(mbox) == decode(get_bits(mbox.cs, 24, 28))

Pending(st) == {i \in TxMailboxes : CodeOf(st.ram[i]) = Ok(Transmit("DataRemote"))}

AllPending(st) == Pending(st) = TxMailboxes

Lowest(S) == CHOOSE i \in S : \A j \in S : i <= j

LargestHeldId(st) ==
    LET ids == {Held(st.ram[i]).id : i \in Pending(st)}
    IN CHOOSE m \in ids : \A n \in ids : n <= m

Now == Regs(ram, iflag)

(***************************************************************************)
(* abort_mailbox on pending transmit mailboxes, racing with the            *)
(* peripheral.  hist.run has one entry per call that wrote the Abort code: *)
(* the frame the mailbox held, what the call returned, and the             *)
(* peripheral's answer to the request ("none" while it has given none).    *)
(***************************************************************************)
CanAbort(mailbox, hw) ==
    /\ Alive
    /\ LET a == abort_mailbox(Regs(ram, iflag), mailbox, hw)
           asked == read_mailbox_code(Regs(ram, iflag), mailbox) = Ok(Transmit("DataRemote"))
       IN /\ asked \/ hw = "pending"
          /\ ram' = a.st.ram
          /\ iflag' = a.st.iflag
          /\ ret' = [status |-> a.outcome, some |-> a.some, frame |-> a.frame,
                     reread |-> a.reread, flagged |-> a.flagged]
          /\ hist' = IF asked
                     THEN [hist EXCEPT !.run = Append(@,
                              [mailbox |-> mailbox,
                               held |-> Held(ram[mailbox]),
                               some |-> a.some,
                               frame |-> a.frame,
                               answer |-> CASE hw = "pending" -> "none"
                                            [] hw = "sent" -> "sent"
                                            [] OTHER -> "aborted"])]
                     ELSE hist
    /\ arg' = [op |-> "abort", mailbox |-> mailbox, frame |-> NoFrame, hw |-> hw]
    /\ pre' = Regs(ram, iflag)
    /\ UNCHANGED cfg

\* The peripheral answers a request it had left open: the frame was cancelled
\* (code Abort stays) or it went out on the bus (code Inactive); flag set.
HwAbortAnswer(j, sent) ==
    /\ Alive
    /\ j \in 1 .. Len(hist.run)
    /\ hist.run[j].answer = "none"
    /\ LET i == hist.run[j].mailbox IN
        /\ ram' = IF sent
                  THEN [ram EXCEPT ![i].cs = set_bits(@, 24, 28, u8_from(Transmit("Inactive")))]
                  ELSE ram
        /\ iflag' = iflag \cup {i}
    /\ hist' = [hist EXCEPT !.run[j].answer = IF sent THEN "sent" ELSE "aborted"]
    /\ Hw

NextAbort ==
    \/ \E f \in TxFrames \cup QuickFrames : CanTransmitQuickFew(f)
    \/ \E i \in TxMailboxes, hw \in AbortOutcomes : CanAbort(i, hw)
    \/ \E j \in 1 .. (MaxRxSends + 1), sent \in BOOLEAN : HwAbortAnswer(j, sent)
    \/ \E i \in TxMailboxes : HwTransmitDone(i)

SpecAbort == DriverInit /\ [][NextAbort]_vars

(***************************************************************************)
(* C1: transmit(frame) with all 8 transmit mailboxes pending and frame's   *)
(* identifier below the largest pending identifier evicts: a mailbox that  *)
(* held the largest identifier now holds frame with code DataRemote, and   *)
(* the call returned the frame that mailbox held.                          *)
(***************************************************************************)
C1_EvictsWorst ==
    (/\ arg.op = "transmit"
     /\ AllPending(pre)
     /\ arg.frame.id < LargestHeldId(pre))
    => \E i \in TxMailboxes :
          /\ Held(pre.ram[i]).id = LargestHeldId(pre)
          /\ ret = Result("Ok", TRUE, Held(pre.ram[i]))
          /\ CodeOf(ram[i]) = Ok(Transmit("DataRemote"))
          /\ Held(ram[i]) = arg.frame

(***************************************************************************)
(* C2: transmit(frame) with all 8 transmit mailboxes pending and frame's   *)
(* identifier not below the largest pending identifier returns             *)
(* BufferExhausted and leaves every mailbox word as it was.                *)
(***************************************************************************)
C2_NoEviction ==
    (/\ arg.op = "transmit"
     /\ AllPending(pre)
     /\ arg.frame.id >= LargestHeldId(pre))
    => /\ ret = Result("BufferExhausted", FALSE, NoFrame)
       /\ ram = pre.ram

C2_Witness ==
    /\ arg.op = "transmit"
    /\ AllPending(pre)
    /\ arg.frame.id >= LargestHeldId(pre)
    /\ \E i \in TxMailboxes : Held(pre.ram[i]).id < LargestHeldId(pre)
    /\ ret.status = "BufferExhausted"

C4_QuickRun ==
    \A j \in 1 .. Len(hist.run) :
        LET k == hist.run[1].free
            c == hist.run[j]
        IN /\ j <= k => /\ c.status = "Ok"
                        /\ Cardinality(c.written) = 1
                        /\ \A h \in 1 .. (j - 1) :
                               Lowest(hist.run[h].written) < Lowest(c.written)
           /\ j > k => c.status = "BufferExhausted" /\ c.written = {}
           /\ (k = TX_MAILBOXES /\ j <= k) => c.written = {j - 1}

C4_Witness ==
    /\ Len(hist.run) = TX_MAILBOXES + 1
    /\ hist.run[1].free = TX_MAILBOXES
    /\ hist.run[TX_MAILBOXES].status = "Ok"
    /\ hist.run[TX_MAILBOXES + 1].status = "BufferExhausted"

(***************************************************************************)
(* C5: receive() with a completion flag set on some receive mailbox        *)
(* returns the frame held by the lowest-indexed receive mailbox whose flag *)
(* is set, clears that flag and leaves every other flag as it was.         *)
(***************************************************************************)
C5_ReturnsLowestFlagged ==
    (arg.op = "receive" /\ (pre.iflag \cap RxMailboxes) # {})
    => LET i == Lowest(pre.iflag \cap RxMailboxes) IN
       /\ ret = Result("Ok", TRUE, Held(pre.ram[i]))
       /\ iflag = pre.iflag \ {i}

(***************************************************************************)
(* C6: receive() with no completion flag set on a receive mailbox returns  *)
(* BufferExhausted and changes no mailbox word and no completion flag,     *)
(* whatever flags the transmit mailboxes carry.                            *)
(***************************************************************************)
C6_NothingToReceive ==
    (arg.op = "receive" /\ (pre.iflag \cap RxMailboxes) = {})
    => /\ ret = Result("BufferExhausted", FALSE, NoFrame)
       /\ ram = pre.ram
       /\ iflag = pre.iflag

\* A transmit mailbox's flag is set, and a receive mailbox holds a frame
\* whose flag an earlier receive() cleared.
C6_Witness ==
    /\ arg.op = "receive"
    /\ (pre.iflag \cap RxMailboxes) = {}
    /\ (pre.iflag \cap TxMailboxes) # {}
    /\ ret.status = "BufferExhausted"

(***************************************************************************)
(* C7: write_mailbox on a mailbox whose code is Transmit:DataRemote,       *)
(* Transmit:Tanswer or Receive:Empty, Full, Overrun, Ranswer (busy or not) *)
(* returns BusyMailboxWriteAttempted and changes no mailbox word and no    *)
(* completion flag; on every other decodable code (Transmit:Inactive,      *)
(* Transmit:Abort, Receive:Inactive) it succeeds.                          *)
(***************************************************************************)
BusyCodes ==
    {Transmit("DataRemote"), Transmit("Tanswer")}
        \cup {Receive(s, b) : s \in {"Empty", "Full", "Overrun", "Ranswer"},
                              b \in BOOLEAN}

C7_BusyWriteRefused ==
    arg.op = "write"
    => LET code == CodeOf(pre.ram[arg.mailbox]) IN
       /\ (code.tag = "Ok" /\ code.val \in BusyCodes)
          => /\ ret.status = "BusyMailboxWriteAttempted"
             /\ ram = pre.ram
             /\ iflag = pre.iflag
       /\ (code.tag = "Ok" /\ code.val \notin BusyCodes) => ret.status = "Ok"

\* A write refused on a mailbox that is being overwritten, its flag set.
C7_Witness ==
    /\ arg.op = "write"
    /\ CodeOf(pre.ram[arg.mailbox]) = Ok(Receive("Overrun", TRUE))
    /\ arg.mailbox \in pre.iflag
    /\ ret.status = "BusyMailboxWriteAttempted"

(***************************************************************************)
(* C8: a frame written by write_mailbox into an Inactive mailbox and read  *)
(* back by read_mailbox with nothing in between comes back with the same   *)
(* identifier kind and value, data length and payload bytes (or as the     *)
(* same remote frame).                                                     *)
(***************************************************************************)
C8_RoundTrip ==
    (arg.op = "read" /\ arg.wrote.some)
    => /\ ret.status = "Ok"
       /\ ret.frame = arg.wrote.val

(***************************************************************************)
(* C9: decode(encode(s)) = s for each of the 14 buffer-state values,       *)
(* distinct values encode to distinct 4-bit patterns, and decode fails on  *)
(* exactly the patterns that encode no value.                              *)
(***************************************************************************)
C9_CodecBijection ==
    /\ arg.op = "encode"
       => /\ ret.bits \in CodePatterns
          /\ arg.code # arg.other => ret.bits # ret.other_bits
    /\ arg.op = "round" => ret.decoded = Ok(arg.code)
    /\ arg.op = "decode"
       => /\ ret.decoded.tag = "Err"
             <=> \A s \in MessageBufferCodes : u8_from(s) # arg.bits
          /\ ret.decoded.tag = "Ok"
             => ret.decoded.val \in MessageBufferCodes

\* A busy receive code came back from its pattern.
C9_Witness ==
    /\ arg.op = "round"
    /\ arg.code = Receive("Ranswer", TRUE)
    /\ ret.decoded = Ok(arg.code)

(***************************************************************************)
(* C10: when the source is a multiple of the target frequency, at least 5  *)
(* times it, and the quanta count tqs is in [8, 26), init's bit timing     *)
(* satisfies 1 + (propseg + 1) + (pseg1 + 1) + (pseg2 + 1) = tqs with no   *)
(* segment negative, and (pseg2, rjw) is (1,1) for tqs in [8,10), (3,2) in *)
(* [10,15), (6,2) in [15,20), (7,3) in [20,26).                            *)
(***************************************************************************)
SourceOf(a) ==
    IF a.settings.clock_source = "Sys"
    THEN a.spc.core_freq
    ELSE a.spc.soscdiv2_freq.val

QuantaOf(source, target) ==
    (source \div (((source \div target) \div 25) + 1)) \div target

C10_SegmentsSumToTqs ==
    (/\ arg.op = "init"
     /\ arg.settings.clock_source = "Soscdiv2" => arg.spc.soscdiv2_freq.some
     /\ SourceOf(arg) % arg.settings.can_frequency = 0
     /\ SourceOf(arg) >= 5 * arg.settings.can_frequency
     /\ QuantaOf(SourceOf(arg), arg.settings.can_frequency) \in 8 .. 25)
    => LET t == ret.timing IN
       /\ ret.status = "Ok"
       /\ t.tqs = QuantaOf(SourceOf(arg), arg.settings.can_frequency)
       /\ 1 + (t.propseg + 1) + (t.pseg1 + 1) + (t.pseg2 + 1) = t.tqs
       /\ t.propseg >= 0 /\ t.pseg1 >= 0 /\ t.pseg2 >= 0
       /\ <<t.pseg2, t.rjw>> =
              CASE t.tqs \in 8 .. 9 -> <<1, 1>>
                [] t.tqs \in 10 .. 14 -> <<3, 2>>
                [] t.tqs \in 15 .. 19 -> <<6, 2>>
                [] t.tqs \in 20 .. 25 -> <<7, 3>>

\* A prescaled clock (presdiv > 0) with a quanta count of the last table row.
C10_Witness ==
    /\ arg.op = "init"
    /\ ret.status = "Ok"
    /\ ret.timing.presdiv > 0
    /\ ret.timing.tqs >= 20
    /\ SourceOf(arg) >= 5 * arg.settings.can_frequency

(***************************************************************************)
(* C11: when the source passes the multiple and ratio >= 5 checks but the  *)
(* quanta count tqs is outside [8, 26), init returns a configuration error *)
(* to its caller; it does not panic.                                       *)
(***************************************************************************)
SourcePresent(a) ==
    a.settings.clock_source = "Soscdiv2" => a.spc.soscdiv2_freq.some

CanErrors ==
    {"FreezeModeError", "ClockSourceDisabled", "SettingsError",
     "ConfigurationFailed", "BusyMailboxWriteAttempted"}

C11_UnsupportedQuantaIsError ==
    (/\ arg.op = "init"
     /\ SourcePresent(arg)
     /\ SourceOf(arg) % arg.settings.can_frequency = 0
     /\ SourceOf(arg) >= 5 * arg.settings.can_frequency
     /\ QuantaOf(SourceOf(arg), arg.settings.can_frequency) \notin 8 .. 25)
    => ret.status \in CanErrors

(***************************************************************************)
(* C12: init returns SettingsError when the selected source frequency is   *)
(* no integer multiple of the target rate or less than 5 times it, and     *)
(* ClockSourceDisabled when Soscdiv2 is selected and the clock provider    *)
(* reports it absent; for a present source that is a multiple with ratio   *)
(* >= 5 it returns neither.                                                *)
(***************************************************************************)
C12_SettingsChecks ==
    arg.op = "init"
    => /\ ~SourcePresent(arg) => ret.status = "ClockSourceDisabled"
       /\ (/\ SourcePresent(arg)
           /\ \/ SourceOf(arg) % arg.settings.can_frequency # 0
              \/ SourceOf(arg) < 5 * arg.settings.can_frequency)
          => ret.status = "SettingsError"
       /\ (/\ SourcePresent(arg)
           /\ SourceOf(arg) % arg.settings.can_frequency = 0
           /\ SourceOf(arg) >= 5 * arg.settings.can_frequency)
          => ret.status \notin {"SettingsError", "ClockSourceDisabled"}

\* Soscdiv2 selected and absent, while the core clock would have passed.
C12_Witness ==
    /\ arg.op = "init"
    /\ ~SourcePresent(arg)
    /\ arg.spc.core_freq = 8 * arg.settings.can_frequency
    /\ ret.status = "ClockSourceDisabled"

(***************************************************************************)
(* C13: when init fails (disabled clock source, unsupported ratio, quanta  *)
(* count out of range, failure while seeding the mailboxes) it has written *)
(* no register: mailbox memory, completion flags, MCR, CTRL1, the mask and *)
(* the peripheral's mode are what they were before the call.               *)
(***************************************************************************)
C13_FailsBeforeAnyWrite ==
    (arg.op = "init" /\ ret.status # "Ok")
    => /\ ram = pre.ram
       /\ iflag = pre.iflag
       /\ cfg = pre.cfg

\* A failed init on a peripheral that was running, its flags set.
C13_Witness ==
    /\ arg.op = "init"
    /\ ret.status = "ClockSourceDisabled"
    /\ ~pre.cfg.mcr.mdis
    /\ pre.iflag = Mailboxes
    /\ cfg = pre.cfg

(***************************************************************************)
(* C19: after a successful init every mailbox 0..7 has code                *)
(* Transmit:Inactive, every mailbox 8..15 has code Receive:Empty with busy *)
(* clear, every completion flag is clear, and the peripheral is enabled    *)
(* and out of freeze mode.                                                 *)
(***************************************************************************)
C19_InitPostState ==
    (arg.op = "init" /\ ret.status = "Ok")
    => /\ \A i \in TxMailboxes : CodeOf(ram[i]) = Ok(Transmit("Inactive"))
       /\ \A i \in RxMailboxes : CodeOf(ram[i]) = Ok(Receive("Empty", FALSE))
       /\ iflag = {}
       /\ ~cfg.mcr.mdis /\ ~cfg.mcr.lpmack
       /\ ~cfg.mcr.frz /\ ~cfg.mcr.halt /\ ~cfg.mcr.frzack

\* init succeeded on mailboxes that held a pattern naming no code, all flags set.
C19_Witness ==
    /\ arg.op = "init"
    /\ ret.status = "Ok"
    /\ pre.iflag = Mailboxes
    /\ \A i \in Mailboxes : CodeOf(pre.ram[i]).tag = "Err"
    /\ pre.cfg.mcr.mdis

(***************************************************************************)
(* C20: inactivate_mailbox on a mailbox with a decodable code leaves the   *)
(* Inactive code of the role its index gives it, Transmit:Inactive for     *)
(* 0..7 and Receive:Inactive with busy clear for 8..15, whatever code it   *)
(* held; on an undecodable code it zeroes the control word.                *)
(***************************************************************************)
C20_InactiveByIndex ==
    arg.op = "inactivate"
    => LET before == CodeOf(pre.ram[arg.mailbox]) IN
       /\ before.tag = "Ok"
          => CodeOf(ram[arg.mailbox]) =
                 IF arg.mailbox \in TxMailboxes
                 THEN Ok(Transmit("Inactive"))
                 ELSE Ok(Receive("Inactive", FALSE))
       /\ before.tag = "Err" => ram[arg.mailbox].cs = 0

AccessRank(reg) ==
    CASE reg = "iflag1" -> 0 [] reg = "id" -> 1 [] reg = "data" -> 2 [] reg = "cs" -> 3

C15_ControlWordLast ==
    LET log == hist.run
        started == arg.op = "writing" \/ (arg.op = "write" /\ ret.status = "Ok")
    IN started
       => /\ \A j \in 1 .. Len(log) : \A k \in (j + 1) .. Len(log) :
                 /\ AccessRank(log[j]) <= AccessRank(log[k])
                 /\ AccessRank(log[j]) = AccessRank(log[k]) => log[j] = "data"
          /\ Len(log) >= 1 => log[1] = "iflag1"
          /\ Len(log) >= 2 => log[2] = "id"
          /\ arg.op = "writing"
             => /\ \A j \in 1 .. Len(log) : log[j] # "cs"
                /\ ram[arg.mailbox].cs = pre.ram[arg.mailbox].cs
                /\ CodeOf(ram[arg.mailbox]) # Ok(transmit_header.code)
          /\ arg.op = "write"
             => /\ log[Len(log)] = "cs"
                /\ Len(log) = 3 + (IF arg.frame.rtr THEN 0 ELSE Len(arg.frame.data))
                /\ CodeOf(ram[arg.mailbox]) = Ok(transmit_header.code)
                /\ Regs(ram, iflag)
                       = write_mailbox(pre, transmit_header, arg.frame, arg.mailbox).st

\* Flag cleared, identifier and all 8 payload bytes written, the code still
\* the old one.
C15_Witness ==
    /\ arg.op = "writing"
    /\ Len(hist.run) = 10
    /\ arg.mailbox \in pre.iflag
    /\ arg.mailbox \notin iflag
    /\ CodeOf(ram[arg.mailbox]) = Ok(Transmit("Inactive"))
    /\ read_data(ram[arg.mailbox].dw, 8) = arg.frame.data

(***************************************************************************)
(* C16: abort_mailbox on a mailbox with code Transmit:DataRemote clears    *)
(* the completion flag, writes the Abort code and re-reads the mailbox     *)
(* only once the peripheral has set the completion flag: the re-read never *)
(* happens while the flag is clear.                                        *)
(***************************************************************************)
C16_RereadAfterFlag ==
    (/\ arg.op = "abort"
     /\ CodeOf(pre.ram[arg.mailbox]) = Ok(Transmit("DataRemote"))
     /\ ret.reread)
    => ret.flagged

(***************************************************************************)
(* C17: abort_mailbox on a pending mailbox returns the frame the mailbox   *)
(* held (same identifier kind and value, length, payload) only if the      *)
(* frame never reached the bus, and nothing if the peripheral sent it: no  *)
(* frame is both sent on the bus and returned as aborted.                  *)
(***************************************************************************)
C17_AbortedOrSent ==
    \A j \in 1 .. Len(hist.run) :
        LET a == hist.run[j] IN
        /\ a.some => a.frame = a.held /\ a.answer # "sent"
        /\ a.answer = "sent" => ~a.some

(***************************************************************************)
(* C18: during init every write to mailbox memory (the inactivate and the  *)
(* write of each of the 16 mailboxes) and the clearing of the completion   *)
(* flags happens after enter_freeze saw the freeze acknowledgment and      *)
(* before leave_freeze withdraws the freeze request.                       *)
(***************************************************************************)
TouchesMailboxes(step) == step.op \in {"mailbox", "iflag1"}

C18_FreezeWindow ==
    LET log == hist.run IN
    /\ \A j \in 1 .. Len(log) :
           TouchesMailboxes(log[j])
           => /\ \E a \in 1 .. (j - 1) : log[a].op = "enter_freeze"
              /\ \A b \in 1 .. (j - 1) : log[b].op # "leave_freeze"
    /\ (Len(log) > 0 /\ TouchesMailboxes(log[Len(log)]))
       => /\ cfg.mcr.frzack /\ cfg.mcr.frz /\ cfg.mcr.halt
          /\ ~cfg.mcr.mdis
    /\ (arg.op \in {"initializing", "init"} /\ (ram # pre.ram \/ iflag # pre.iflag))
       => \E a \in 1 .. Len(log) : log[a].op = "enter_freeze"
    /\ (arg.op = "init" /\ ret.status = "Ok")
       => /\ \A i \in Mailboxes : \E j \in 1 .. Len(log) : log[j] = InitStepOf("mailbox", i)
          /\ \E j \in 1 .. Len(log) : log[j].op = "iflag1"
          /\ log[Len(log)].op = "leave_freeze"
          /\ LET whole == init(Regs(pre.ram, pre.iflag), pre.cfg, arg.settings, arg.spc)
             IN /\ Regs(ram, iflag) = whole.st
                /\ cfg = whole.cfg

\* The last mailbox has just been seeded on a peripheral that had been
\* running, the freeze acknowledged; the flags are still to be cleared.
C18_Witness ==
    /\ arg.op = "initializing"
    /\ Len(hist.run) > 0
    /\ hist.run[Len(hist.run)] = InitStepOf("mailbox", (TX_MAILBOXES + RX_MAILBOXES) - 1)
    /\ ~pre.cfg.mcr.mdis /\ ~pre.cfg.mcr.frzack
    /\ cfg.mcr.frzack
    /\ pre.iflag = Mailboxes
    /\ ram # pre.ram

(***************************************************************************)
(* read_mailbox one register access at a time, with the peripheral         *)
(* receiving in between.  arg.pc is the next access of the call; arg.cs,   *)
(* arg.idw, arg.dw and arg.prio are what the call has read so far.         *)
(***************************************************************************)
ReadMailboxes == {0} \cup DriverRxMailboxes

ReadArg(op, mailbox, pc, cs, idw, dw, prio) ==
    [op |-> op, mailbox |-> mailbox, pc |-> pc, cs |-> cs, idw |-> idw,
     dw |-> dw, prio |-> prio]

\* Faulty variant: the sample is interpreted whether busy or not.
read_next_no_wait(cs) ==
    IF decode(get_bits(cs, 24, 28)).tag = "Err" THEN "panic" ELSE "id"

\* The access that follows a sample of the control word: the while-let loop
\* reads it again as long as it decodes to a busy Receive code.
read_next(cs) ==
    LET code == decode(get_bits(cs, 24, 28))
    IN IF code.tag = "Err"
       THEN "panic"
       ELSE IF code.val.kind = "Receive" /\ code.val.busy
       THEN "cs"
       ELSE "id"

\* What the call returns, from the words it has read.
read_result(cs, idw, dw, prio) ==
    LET extended_id == get_bit(cs, 21)
        id == read_id([idw |-> idw], extended_id)
    IN [status |-> "Ok", some |-> TRUE,
        frame |-> IF get_bit(cs, 20)
                  THEN RemoteFrame(extended_id, id)
                  ELSE DataFrame(extended_id, id, read_data(dw, get_bits(cs, 16, 20))),
        header |-> MailboxHeader(get_bit(cs, 29),
                                 decode(get_bits(cs, 24, 28)).val,
                                 get_bits(cs, 0, 15), get_bits(prio, 29, 32))]

ReadPanic == [status |-> "Panic", some |-> FALSE, frame |-> NoFrame,
              header |-> default_transmit]

\* The peripheral keeps a receive mailbox locked from the read of its
\* control word until the read of the free running timer.
Locked(i) == arg.op = "reading" /\ arg.mailbox = i /\ arg.pc # "cs"

\* The call and its first read of the control word.
ReadBegin(mailbox) ==
    /\ Alive
    /\ arg.op # "reading"
    /\ LET cs == ram[mailbox].cs
           next == read_next(cs)
       IN /\ arg' = ReadArg(IF next = "panic" THEN "read" ELSE "reading",
                            mailbox, next, Some(cs), None, None, None)
          /\ ret' = IF next = "panic" THEN ReadPanic ELSE NoResult
    /\ pre' = Regs(ram, iflag)
    /\ UNCHANGED <<ram, iflag, cfg, hist>>

ReadStep ==
    /\ arg.op = "reading"
    /\ LET mbox == ram[arg.mailbox]
           cs == arg.cs.val
           dlc == get_bits(cs, 16, 20)
       IN CASE arg.pc = "cs" ->
                 LET next == read_next(mbox.cs)
                 IN /\ arg' = [arg EXCEPT !.cs = Some(mbox.cs), !.pc = next,
                                          !.op = IF next = "panic" THEN "read" ELSE @]
                    /\ ret' = IF next = "panic" THEN ReadPanic ELSE ret
                    /\ UNCHANGED iflag
            [] arg.pc = "id" ->
                 /\ arg' = [arg EXCEPT !.idw = Some(mbox.idw), !.pc = "data"]
                 /\ UNCHANGED <<ret, iflag>>
            [] arg.pc = "data" ->
                 IF ~get_bit(cs, 20) /\ dlc > 8
                 THEN /\ arg' = [arg EXCEPT !.op = "read", !.pc = "panic"]
                      /\ ret' = ReadPanic
                      /\ UNCHANGED iflag
                 ELSE /\ arg' = [arg EXCEPT !.dw = Some(mbox.dw), !.pc = "priority"]
                      /\ UNCHANGED <<ret, iflag>>
            [] arg.pc = "priority" ->
                 /\ arg' = [arg EXCEPT !.prio = Some(mbox.idw), !.pc = "iflag1"]
                 /\ UNCHANGED <<ret, iflag>>
            [] arg.pc = "iflag1" ->
                 /\ iflag' = iflag_write(Regs(ram, iflag), arg.mailbox).iflag
                 /\ arg' = [arg EXCEPT !.pc = "timer"]
                 /\ UNCHANGED ret
            [] arg.pc = "timer" ->
                 /\ arg' = [arg EXCEPT !.op = "read", !.pc = "done"]
                 /\ ret' = read_result(cs, arg.idw.val, arg.dw.val, arg.prio.val)
                 /\ UNCHANGED iflag
    /\ UNCHANGED <<ram, cfg, pre, hist>>

\* A step of the peripheral leaves a call in progress where it is.
HwDuringRead == IF arg.op = "reading" THEN UNCHANGED <<arg, pre, ret, cfg>> ELSE Hw

\* A matching frame starts to move into mailbox i, unless the mailbox is
\* locked: the busy bit goes up.
HwMoveInStart(i) ==
    /\ ~Locked(i)
    /\ hist.hwrx < MaxHwRx
    /\ LET code == read_mailbox_code(Regs(ram, iflag), i) IN
        /\ RxReady(code)
        /\ ~code.val.busy
        /\ ram' = [ram EXCEPT ![i].cs =
                      set_bits(@, 24, 28, u8_from(Receive(code.val.state, TRUE)))]
    /\ hist' = [hist EXCEPT !.hwrx = @ + 1]
    /\ UNCHANGED iflag
    /\ HwDuringRead

\* The move is complete: the frame, its code and the flag are in place.
HwMoveInEnd(i, frame) ==
    /\ LET code == read_mailbox_code(Regs(ram, iflag), i)
           next == IF code.val.state # "Empty" /\ i \in iflag THEN "Overrun" ELSE "Full"
           h == MailboxHeader(FALSE, Receive(next, FALSE), 0, 0)
       IN /\ RxReady(code)
          /\ code.val.busy
          /\ ram' = [ram EXCEPT ![i] =
                        [cs |-> control_word(h, frame, Len(frame.data)),
                         idw |-> id_word(h, frame),
                         dw |-> write_data(@.dw, frame.data, 0)]]
    /\ iflag' = iflag \cup {i}
    /\ UNCHANGED hist
    /\ HwDuringRead

NextRead ==
    \/ \E m \in ReadMailboxes : ReadBegin(m)
    \/ ReadStep
    \/ \E i \in DriverRxMailboxes : HwMoveInStart(i)
    \/ \E i \in DriverRxMailboxes, f \in RxFrames : HwMoveInEnd(i, f)

SpecRead == DriverInit /\ [][NextRead]_vars

(***************************************************************************)
(* C21: read_mailbox never interprets a buffer the peripheral owns.  As    *)
(* long as its sample of the control word decodes to a busy Receive code   *)
(* it has read nothing but the control word and has not touched the flag;  *)
(* once it reads the identifier and payload its sample is not busy and the *)
(* mailbox is not busy either; the header and frame it returns are those   *)
(* of that sample, and the returned code is never busy.                    *)
(***************************************************************************)
BusyCode(cs) ==
    LET code == decode(get_bits(cs, 24, 28))
    IN code.tag = "Ok" /\ code.val.kind = "Receive" /\ code.val.busy

C21_NeverInterpretsBusy ==
    /\ arg.op = "reading"
       => /\ arg.pc = "cs" <=> BusyCode(arg.cs.val)
          /\ arg.pc = "cs"
             => /\ ~arg.idw.some /\ ~arg.dw.some /\ ~arg.prio.some
                /\ pre.iflag \subseteq iflag
          /\ arg.pc # "cs"
             => /\ ~BusyCode(ram[arg.mailbox].cs)
                /\ CodeOf(ram[arg.mailbox]).val.kind = "Receive"
                   => ram[arg.mailbox].cs = arg.cs.val
    /\ (arg.op = "read" /\ ret.status = "Ok")
       => /\ ~BusyCode(arg.cs.val)
          /\ ~ret.header.code.busy
          /\ ret.header.code = decode(get_bits(arg.cs.val, 24, 28)).val
          /\ ret.frame.ext = get_bit(arg.cs.val, 21)
          /\ ret.frame.rtr = get_bit(arg.cs.val, 20)
          /\ ~ret.frame.rtr => Len(ret.frame.data) = get_bits(arg.cs.val, 16, 20)
          /\ LET r == read_mailbox(Regs(ram, iflag), arg.mailbox)
             IN r.outcome = "Ok" /\ r.frame = ret.frame /\ r.header = ret.header

\* The call found the mailbox busy, sampled again after the peripheral had
\* stored the frame, and returned that frame with code Full.
C21_Witness ==
    /\ arg.op = "read"
    /\ ret.status = "Ok"
    /\ BusyCode(pre.ram[arg.mailbox].cs)
    /\ ret.header.code = Receive("Full", FALSE)
    /\ ret.frame \in RxFrames
    /\ arg.mailbox \notin iflag

(***************************************************************************)
(* Can::init with every acknowledgment awaited: each register write and    *)
(* each wait loop of the mode functions is a step of its own, and the      *)
(* peripheral gives its acknowledgments in steps of its own.  arg.pc is    *)
(* the next access of init_accesses, hist.run the accesses done so far.    *)
(***************************************************************************)
\* fn: the function the access belongs to; op: "write" sets the MCR bits to
\* val, "poll" waits until they read val, "mailbox" seeds mailbox val, the
\* others are init's own register writes.
AccessOf(fn, op, bits, val) == [fn |-> fn, op |-> op, bits |-> bits, val |-> val]

enable_steps ==
    <<AccessOf("enable", "write", {"mdis"}, FALSE),
      AccessOf("enable", "poll", {"lpmack"}, FALSE)>>

disable_steps ==
    <<AccessOf("disable", "write", {"mdis"}, TRUE),
      AccessOf("disable", "poll", {"lpmack"}, TRUE)>>

reset_steps ==
    disable_steps
        \o <<AccessOf("force_clock_source", "clksrc", {}, TRUE)>>
        \o enable_steps
        \o <<AccessOf("soft_reset", "write", {"softrst"}, TRUE),
             AccessOf("soft_reset", "poll", {"softrst"}, FALSE)>>
        \o disable_steps

enter_freeze_steps ==
    <<AccessOf("enter_freeze", "write", {"frz", "halt"}, TRUE),
      AccessOf("enter_freeze", "poll", {"frzack"}, TRUE)>>

leave_freeze_steps ==
    <<AccessOf("leave_freeze", "write", {"halt", "frz"}, FALSE),
      AccessOf("leave_freeze", "poll", {"frzack"}, FALSE)>>

\* Faulty variant: freeze mode is requested while the module is disabled.
init_accesses_no_enable ==
    reset_steps
        \o <<AccessOf("select_clock_source", "select", {}, FALSE)>>
        \o enter_freeze_steps
        \o <<AccessOf("configure", "configure", {}, FALSE)>>
        \o [k \in 1 .. (TX_MAILBOXES + RX_MAILBOXES) |->
                AccessOf("mailboxes", "mailbox", {}, k - 1)]
        \o <<AccessOf("iflag1", "iflag1", {}, FALSE)>>
        \o leave_freeze_steps

\* What init does once the settings are accepted, in program order.
init_accesses ==
    reset_steps
        \o <<AccessOf("select_clock_source", "select", {}, FALSE)>>
        \o enable_steps
        \o enter_freeze_steps
        \o <<AccessOf("configure", "configure", {}, FALSE)>>
        \o [k \in 1 .. (TX_MAILBOXES + RX_MAILBOXES) |->
                AccessOf("mailboxes", "mailbox", {}, k - 1)]
        \o <<AccessOf("iflag1", "iflag1", {}, FALSE)>>
        \o leave_freeze_steps

\* A wait loop goes on as long as this is false.
Acknowledged(c, a) == \A b \in a.bits : c.mcr[b] = a.val

\* One access on mailbox state st and configuration registers c.
init_access(st, c, settings, t, a) ==
    CASE a.op = "write" ->
             [st |-> st, res |-> "Ok",
              cfg |-> [c EXCEPT !.mcr = [b \in DOMAIN @ |->
                                            IF b \in a.bits THEN a.val ELSE @[b]]]]
      [] a.op = "poll" -> [st |-> st, res |-> "Ok", cfg |-> c]
      [] a.op = "clksrc" ->
             [st |-> st, res |-> "Ok", cfg |-> [c EXCEPT !.ctrl1.clksrc = a.val]]
      [] a.op = "select" ->
             [st |-> st, res |-> "Ok",
              cfg |-> [c EXCEPT !.ctrl1.clksrc = (settings.clock_source = "Sys")]]
      [] a.op = "configure" ->
             [st |-> st, res |-> "Ok", cfg |-> configure(c, settings, t)]
      [] a.op = "mailbox" ->
             LET w == write_mailbox(inactivate_mailbox(st, a.val),
                                    IF a.val < TX_MAILBOXES
                                    THEN default_transmit ELSE default_receive,
                                    filter_frame, a.val)
             IN [st |-> w.st, res |-> IF w.res = "Ok" THEN "Ok" ELSE "Panic", cfg |-> c]
      [] a.op = "iflag1" ->
             [st |-> [st EXCEPT !.iflag = {}], res |-> "Ok", cfg |-> c]

InitAccess ==
    /\ arg.op = "initializing"
    /\ LET a == init_accesses[arg.pc]
           s == init_access(Regs(ram, iflag), cfg, arg.settings, ret.timing, a)
           last == arg.pc = Len(init_accesses) \/ s.res # "Ok"
       IN /\ a.op = "poll" => Acknowledged(cfg, a)
          /\ ram' = s.st.ram
          /\ iflag' = s.st.iflag
          /\ cfg' = s.cfg
          /\ arg' = [arg EXCEPT !.op = IF last THEN "init" ELSE "initializing",
                                !.pc = @ + 1]
          /\ ret' = [ret EXCEPT !.status = IF last THEN s.res ELSE "None"]
          /\ hist' = [hist EXCEPT !.run = Append(@, a)]
    /\ UNCHANGED pre

\* The peripheral's acknowledgments: LPMACK follows MDIS, SOFTRST reads 0
\* again when the reset is done, FRZACK follows FRZ and HALT while the module
\* is enabled.
HwAcknowledge(bit) ==
    /\ CASE bit = "lpmack" ->
              /\ cfg.mcr.lpmack # cfg.mcr.mdis
              /\ cfg' = [cfg EXCEPT !.mcr.lpmack = cfg.mcr.mdis]
         [] bit = "softrst" ->
              /\ cfg.mcr.softrst
              /\ cfg' = [cfg EXCEPT !.mcr.softrst = FALSE]
         [] bit = "frzack" ->
              /\ ~cfg.mcr.mdis
              /\ cfg.mcr.frzack # (cfg.mcr.frz /\ cfg.mcr.halt)
              /\ cfg' = [cfg EXCEPT !.mcr.frzack = (cfg.mcr.frz /\ cfg.mcr.halt)]
    /\ UNCHANGED <<ram, iflag, arg, pre, ret, hist>>

AckBits == {"lpmack", "softrst", "frzack"}

NextAccess ==
    \/ \E in \in SeedInputs : InitBegin(in[1], in[2])
    \/ InitAccess
    \/ \E bit \in AckBits : HwAcknowledge(bit)

\* The processor keeps executing init, and the peripheral gives every
\* acknowledgment it owes.
SpecAccess ==
    /\ SeedInit
    /\ [][NextAccess]_vars
    /\ WF_vars(InitAccess)
    /\ \A bit \in AckBits : WF_vars(HwAcknowledge(bit))

(***************************************************************************)
(* C22: with valid settings and a peripheral that gives every              *)
(* acknowledgment, init eventually returns Ok, and it has then gone        *)
(* through disable, force clock source, enable, soft reset, disable,       *)
(* enable, enter freeze, configure, leave freeze in that order; as long as *)
(* an acknowledgment is missing init cannot go on, so it does not return.  *)
(***************************************************************************)
WritesOf(log) == [k \in 1 .. Len(log) |-> log[k].fn]

C22_Awaited ==
    /\ (/\ arg.op = "initializing"
        /\ init_accesses[arg.pc].op = "poll"
        /\ ~Acknowledged(cfg, init_accesses[arg.pc]))
       => ~ENABLED InitAccess
    /\ \A k \in 1 .. Len(hist.run) : hist.run[k] = init_accesses[k]
    /\ (arg.op = "init" /\ ret.status = "Ok")
       => /\ hist.run = init_accesses
          /\ SelectSeq(WritesOf(SelectSeq(hist.run, LAMBDA a : a.op # "poll")),
                       LAMBDA fn : fn \notin {"select_clock_source", "mailboxes", "iflag1"})
                 = <<"disable", "force_clock_source", "enable", "soft_reset", "disable",
                     "enable", "enter_freeze", "configure", "leave_freeze">>
          /\ ~cfg.mcr.mdis /\ ~cfg.mcr.lpmack /\ ~cfg.mcr.softrst /\ ~cfg.mcr.frzack
          /\ LET r == init(Regs(pre.ram, pre.iflag), pre.cfg, arg.settings, arg.spc)
             IN r.status = "Ok" /\ cfg = r.cfg /\ Regs(ram, iflag) = r.st
    /\ (arg.op = "init" /\ ret.status # "Ok") => hist.run = <<>>

C22_Returns == (arg.op = "initializing") ~> (arg.op = "init" /\ ret.status = "Ok")

\* C22: init waits at every missing acknowledgment, and returns Ok, in the
\* order above, once the peripheral has given them all.
C22_InitTerminates ==
    /\ []C22_Awaited
    /\ C22_Returns

\* init returned Ok on a peripheral that was running: every one of its wait
\* loops had to wait for the peripheral.
C22_Witness ==
    /\ arg.op = "init"
    /\ ret.status = "Ok"
    /\ pre.cfg = RunningCfg
    /\ pre.iflag = Mailboxes
    /\ Len(hist.run) = Len(init_accesses)

(***************************************************************************)
(* Can::init for slow buses on a fast clock: bit rates of 10 and 12.5      *)
(* kbit/s with a source some 6400 times as fast (64 to 80 MHz).            *)
(***************************************************************************)
SlowFrequencies == {10 * 1000, 12500 * 1}

SlowRatios == 6350 .. 6450

NextSlow ==
    \E can_frequency \in SlowFrequencies, ratio \in SlowRatios, loopback_mode \in BOOLEAN :
        CanInit(Settings("Sys", can_frequency, loopback_mode),
                Spc(can_frequency * ratio, None))

SpecSlow == PowerOn /\ [][NextSlow]_vars

(***************************************************************************)
(* C23: for every source and target frequency init accepts, the computed   *)
(* presdiv is at most 255, pseg1, pseg2 and propseg at most 7 and rjw at   *)
(* most 3, and each field of the timing register holds the computed value. *)
(***************************************************************************)
C23_FieldsHoldTiming ==
    (arg.op = "init" /\ ret.status = "Ok")
    => LET t == ret.timing IN
       /\ t.presdiv <= 255
       /\ t.pseg1 <= 7 /\ t.pseg2 <= 7 /\ t.propseg <= 7
       /\ t.rjw <= 3
       /\ cfg.ctrl1.presdiv = t.presdiv
       /\ cfg.ctrl1.pseg1 = t.pseg1
       /\ cfg.ctrl1.pseg2 = t.pseg2
       /\ cfg.ctrl1.propseg = t.propseg
       /\ cfg.ctrl1.rjw = t.rjw

(***************************************************************************)
(* C24: for every source and target frequency init accepts, the timing     *)
(* gives the requested bit rate exactly: (presdiv + 1) * tqs equals        *)
(* source / target, so source / ((presdiv + 1) * tqs) is the target rate.  *)
(***************************************************************************)
C24_ExactBitRate ==
    (arg.op = "init" /\ ret.status = "Ok")
    => LET t == ret.timing
           source == SourceOf(arg)
           target == arg.settings.can_frequency
       IN /\ (t.presdiv + 1) * t.tqs = source \div target
          /\ source \div ((t.presdiv + 1) * t.tqs) = target

(***************************************************************************)
(* Frames with a payload waiting in the transmit mailboxes while transmit, *)
(* transmit_quick and receive are called and the peripheral sends.         *)
(***************************************************************************)
\* transmit_quick is handed a frame with a payload, transmit one with a
\* smaller identifier.
PendingFrames ==
    [transmit_quick |-> DataFrame(FALSE, 768, <<17, 34>>),
     transmit |-> DataFrame(TRUE, 256, <<>>)]

NextPending ==
    \/ CanTransmit(PendingFrames.transmit)
    \/ CanTransmitQuickFew(PendingFrames.transmit_quick)
    \/ CanReceive
    \/ \E i \in TxMailboxes : HwTransmitDone(i)

SpecPending == DriverInit /\ [][NextPending]_vars

(***************************************************************************)
(* C25: no accepted frame is silently lost.  A transmit or transmit_quick  *)
(* call that returns Ok leaves its frame pending in a mailbox; in every    *)
(* step a pending mailbox either keeps its words, or the peripheral sends  *)
(* its frame, or a transmit call puts its own frame there and returns the  *)
(* frame the mailbox held, with the same identifier, length and payload.   *)
(***************************************************************************)
C25_NoFrameLost ==
    [][/\ \A i \in Pending(Now) :
              \/ ram'[i] = ram[i]
              \/ /\ arg'.op = "hw"
                 /\ CodeOf(ram'[i]) = Ok(Transmit("Inactive"))
                 /\ Held(ram'[i]) = Held(ram[i])
                 /\ i \in iflag'
              \/ /\ arg'.op = "transmit"
                 /\ ret' = Result("Ok", TRUE, Held(ram[i]))
                 /\ CodeOf(ram'[i]) = Ok(Transmit("DataRemote"))
                 /\ Held(ram'[i]) = arg'.frame
       /\ (arg'.op \in {"transmit", "transmit_quick"} /\ ret'.status = "Ok")
          => \E i \in TxMailboxes :
                 /\ ram'[i] # ram[i]
                 /\ CodeOf(ram'[i]) = Ok(Transmit("DataRemote"))
                 /\ Held(ram'[i]) = arg'.frame
                 /\ \A j \in TxMailboxes \ {i} : ram'[j] = ram[j]]_vars

\* Eight accepted frames, one with a payload and the largest identifier, are
\* all still pending after a transmit call with a smaller identifier, and
\* the peripheral has sent a frame before.
C25_Witness ==
    /\ arg.op = "transmit"
    /\ AllPending(pre)
    /\ arg.frame.id < LargestHeldId(pre)
    /\ \E i \in TxMailboxes : Held(pre.ram[i]) = PendingFrames.transmit_quick
    /\ ram = pre.ram
    /\ hist.hwtx > 0

(***************************************************************************)
(* The driver sending remote requests as well as data frames.              *)
(***************************************************************************)
RequestFrames ==
    [transmit |-> RemoteFrame(FALSE, 256),
     transmit_quick |-> DataFrame(FALSE, 512, <<17>>)]

NextRequest ==
    \/ CanTransmit(RequestFrames.transmit)
    \/ CanTransmitQuickFew(RequestFrames.transmit_quick)
    \/ CanReceive
    \/ \E i \in TxMailboxes : HwTransmitDone(i)

SpecRequest == DriverInit /\ [][NextRequest]_vars

(***************************************************************************)
(* C26: after a successful init, whatever transmit, transmit_quick and     *)
(* receive calls and peripheral steps follow, every mailbox code decodes,  *)
(* every transmit mailbox is Transmit:Inactive or Transmit:DataRemote when *)
(* transmit reads it, and no call ends in unreachable!() or a failed       *)
(* unwrap().                                                               *)
(***************************************************************************)
C26_NoAssertedState ==
    /\ \A i \in Mailboxes : CodeOf(ram[i]).tag = "Ok"
    /\ arg.op = "transmit"
       => LET scanned == {i \in TxMailboxes : \A j \in 0 .. (i - 1) :
                             CodeOf(pre.ram[j]) # Ok(Transmit("Inactive"))}
          IN \A i \in scanned :
                 CodeOf(pre.ram[i])
                     \in {Ok(Transmit("Inactive")), Ok(Transmit("DataRemote"))}
    /\ ret.status # "Panic"

(***************************************************************************)
(* C27: whatever code pattern a mailbox carries when init starts, the      *)
(* reserved ones included, inactivate_mailbox followed by write_mailbox    *)
(* with the default header and the filter frame returns Ok for each of the *)
(* 16 mailboxes inside the freeze window, so init does not panic while it  *)
(* seeds the mailboxes.                                                    *)
(***************************************************************************)
DefaultHeader(mb) == IF mb < TX_MAILBOXES THEN default_transmit ELSE default_receive

C27_SeedingSucceeds ==
    /\ hist.run # <<>> => ret.status # "Panic"
    /\ arg.op = "initializing"
       => \A mb \in Mailboxes :
              write_mailbox(inactivate_mailbox(Now, mb), DefaultHeader(mb),
                            filter_frame, mb).res = "Ok"
    /\ (hist.run # <<>> /\ hist.run[Len(hist.run)].op = "mailbox")
       => LET mb == hist.run[Len(hist.run)].val
          IN /\ cfg.mcr.frzack
             /\ CodeOf(ram[mb]) = Ok(DefaultHeader(mb).code)
             /\ Held(ram[mb]) = filter_frame
             /\ mb \notin iflag
             /\ \A other \in Mailboxes : other > mb => ram[other] = pre.ram[other]

\* The last mailbox has just been seeded on a mailbox memory that carried a
\* reserved pattern everywhere, with every completion flag set.
C27_Witness ==
    /\ arg.op = "initializing"
    /\ hist.run # <<>>
    /\ hist.run[Len(hist.run)].op = "mailbox"
    /\ hist.run[Len(hist.run)].val = (TX_MAILBOXES + RX_MAILBOXES) - 1
    /\ \A mb \in Mailboxes : decode(code_bits(pre, mb)).tag = "Err"
    /\ pre.iflag = Mailboxes
    /\ \A mb \in Mailboxes : CodeOf(ram[mb]) = Ok(DefaultHeader(mb).code)

====
